---- MODULE Spec2Model ----
(***************************************************************************)
(* A model of the runtime type discipline of scriptum (src/index.js): the  *)
(* type introspection, the function guard `$` with its proxy handler       *)
(* handleF, the global call history and the overloaded-function registry.  *)
(*                                                                         *)
(* Javascript values are records [typeof, repr, num, env]:                 *)
(*   typeof  the result of the typeof operator                             *)
(*   repr    which value of that type: "finite", "NaN", "Infinity" for a   *)
(*           number, the characters of a string, the code of a function,   *)
(*           the type tag of an object                                     *)
(*   num     the numeric value of a finite number (0 otherwise)            *)
(*   env     the values a closure has captured / the entries of a Map /    *)
(*           the elements of an Array or a Set                             *)
(***************************************************************************)
EXTENDS Integers, Sequences, FiniteSets, TLC

\* bounds of the model
MaxArgs == 2        \* longest argument list a caller passes
MaxCalls == 1       \* chains of calls a caller runs to their end
MaxOps == 3         \* as MaxCalls, for the calls of SpecOverload
MaxHistCalls == 12  \* as MaxCalls, for the long runs of SpecHistory
MaxBoxOps == 4      \* as MaxCalls, for the calls of SpecContainers
MaxDescribes == 2   \* as MaxCalls, for the calls of SpecDescribe
MaxDataOps == 2     \* as MaxCalls, for the calls of SpecData
MaxLoops == 2       \* as MaxCalls, for the calls of SpecLoop
MaxRecur == 3       \* most steps a function passed to loop recurs for

VARIABLES
  GUARDED,    \* the global guard flag
  history,    \* the global history log, newest entry first
  completed,  \* every entry ever handed to setHistory, oldest first
  pairs,      \* the registry of the overloaded function append
  held,       \* the function the caller got back last, if any
  done,       \* the calls that ended a chain: a value returned, an error thrown
  last,       \* the most recent call: callee, arguments and outcome
  registered, \* the pairs (k, v) appendAdd has put in the registry, in order
  box         \* the container the caller has wrapped: its handler, the
              \* descriptor t the handler holds, and the container itself

vars == <<GUARDED, history, completed, pairs, held, done, last, registered, box>>

(***************************************************************************)
(* Values                                                                  *)
(***************************************************************************)
V(t, r, n, e) == [typeof |-> t, repr |-> r, num |-> n, env |-> e]

Undefined == V("undefined", "undefined", 0, <<>>)
Num(n) == V("number", "finite", n, <<>>)
NaN == V("number", "NaN", 0, <<>>)
Infinity == V("number", "Infinity", 0, <<>>)
Str(s) == V("string", s, 0, <<>>)
Fun(code, env) == V("function", code, 0, env)
MapObj(entries) == V("object", "Map", 0, entries)
ArrObj(elems) == V("object", "Array", 0, elems)
SetObj(elems) == V("object", "Set", 0, elems)

\* what an index of an array holds that has no element: a hole
Hole == V("hole", "empty", 0, <<>>)

Bool(b) == V("boolean", IF b THEN "true" ELSE "false", 0, <<>>)
Sym == V("symbol", "Symbol()", 0, <<>>)
Null == V("object", "Null", 0, <<>>)
BigInt(n) == V("bigint", "finite", n, <<>>)

\* a plain object and a Record: the own enumerable properties in the order
\* of Object.keys, as k1, v1, k2, v2, ..
ObjObj(entries) == V("object", "Object", 0, entries)
RecObj(entries) == V("object", "Record", 0, entries)
TupObj(elems) == V("object", "Tuple", 0, elems)

\* a value of a type made by Type or Data: an object with the toStringTag
\* name and the properties SIG (undefined where it is not set), TAG and run
Tagged(name, sig, tag, run) == V("object", name, 0, <<sig, Str(tag), run>>)

\* an instance of a subclass of Number or String with a toStringTag
Boxed(tag, x) == V("object", tag, x.num, <<x>>)

\* the tags of the objects that are no values of a type made by Type or Data
OwnTags ==
  { "Array", "Map", "Set", "Object", "Null", "Record", "Tuple",
    "All", "Any", "Char", "Float", "Integer", "Product", "Sum" }

\* SIG in x
HasSIG(x) ==
  /\ x.typeof = "object" /\ x.repr \notin OwnTags
  /\ Len(x.env) = 3 /\ x.env[1] # Undefined

\* the length property of each function of the source that the model calls
FnLength(f) ==
  CASE f.repr = "toTypeTag" -> 1
    [] f.repr = "ordinal" -> 1
    [] f.repr = "stringify" -> 1
    [] f.repr = "appendAdd" -> 2
    [] f.repr = "append" -> 1
    [] f.repr = "co" -> 1
    [] f.repr = "co_1" -> 1
    [] f.repr = "id" -> 1
    [] f.repr = "partial" -> 1
    [] f.repr = "partial_1" -> 0
    [] f.repr = "div" -> 1
    [] f.repr = "div_1" -> 1
    [] f.repr = "appendArray" -> 1
    [] f.repr = "appendArray_1" -> 1
    [] f.repr = "replaceNestings" -> 1
    [] f.repr = "capitalize" -> 1
    [] f.repr = "Left" -> 1
    [] f.repr = "Right" -> 1
    [] f.repr = "cases.tag(x)" -> 1
    [] f.repr = "cases.tag" -> 1
    [] f.repr = "$sum" -> 1
    [] f.repr = "loop" -> 1
    [] f.repr = "eq" -> 1
    [] f.repr = "eq_" -> 1
    [] f.repr = "eq_(x)" -> 1
    [] f.repr = "eqEither" -> 1
    [] f.repr = "eqEither(tx)" -> 1
    [] f.repr = "eqEither.Left" -> 1
    [] f.repr = "eqEither.Right" -> 1
    [] f.repr = "eq(x)(y)" -> 1
    [] OTHER -> 0

\* the name property: only a function bound by a declaration has one, an
\* arrow function written as an argument or as a function body has none
FnName(f) == IF f.repr = "toTypeTag" THEN "toTypeTag" ELSE ""

\* Object.prototype.toString.call(x), sliced to the tag
toTypeTag(x) ==
  CASE x.typeof = "undefined" -> "Undefined"
    [] x.typeof = "number" -> "Number"
    [] x.typeof = "string" -> "String"
    [] x.typeof = "boolean" -> "Boolean"
    [] x.typeof = "symbol" -> "Symbol"
    [] x.typeof = "function" -> "Function"
    [] OTHER -> x.repr

INVALID_TYPES == {"Undefined", "NaN", "Infinity"}

HISTORY_LEN == 10

MAX_TUP_SIZE == 8

MAX_REC_SIZE == 16

RECURSIVE introspect(_)
RECURSIVE mapPairTypes(_)
RECURSIVE JoinTypes(_, _)
RECURSIVE entryTypes(_)

\* ts.join(sep) on an array of descriptors
JoinTypes(ts, sep) ==
  IF Len(ts) = 0 THEN ""
  ELSE IF Len(ts) = 1 THEN ts[1]
  ELSE JoinTypes(SubSeq(ts, 1, Len(ts) - 1), sep) \o sep \o ts[Len(ts)]

\* the elements in index order; reduce and forEach skip the holes
Present(elems) == SelectSeq(elems, LAMBDA e : e # Hole)

\* an array descriptor that lists the descriptors at every length
arrType_noCeiling(ts, length) ==
  IF Cardinality({ts[i] : i \in 1..Len(ts)}) = 1
    THEN "[" \o ts[1] \o "]"
    ELSE "[" \o JoinTypes(ts, ", ") \o "]"

\* the descriptor of an array of the given length whose elements have the
\* descriptors ts
arrType(ts, length) ==
  IF length <= MAX_TUP_SIZE
    THEN IF Cardinality({ts[i] : i \in 1..Len(ts)}) = 1
           THEN "[" \o ts[1] \o "]"
           ELSE "[" \o JoinTypes(ts, ", ") \o "]"
    ELSE IF Cardinality({ts[i] : i \in 1..Len(ts)}) = 1
           THEN "[" \o ts[1] \o "]"
           ELSE "[?]"

introspectArr(xs) ==
  arrType([i \in 1..Len(Present(xs.env)) |-> introspect(Present(xs.env)[i])],
          Len(xs.env))

\* the descriptor of a set whose elements have the descriptors ts
setType(ts) ==
  IF Cardinality({ts[i] : i \in 1..Len(ts)}) = 1
    THEN "Set<" \o ts[1] \o ">"
    ELSE "Set<?>"

introspectSet(s) ==
  setType([i \in 1..Len(s.env) |-> introspect(s.env[i])])

\* the set of "K, V" descriptors of the entries of a Map (k1, v1, k2, v2, ..)
mapPairTypes(entries) ==
  IF Len(entries) < 2 THEN {}
  ELSE {introspect(entries[1]) \o ", " \o introspect(entries[2])}
       \cup mapPairTypes(SubSeq(entries, 3, Len(entries)))

\* the descriptor of a map whose entries have the descriptors of the set s
mapType(s) ==
  IF Cardinality(s) = 1
    THEN "Map<" \o (CHOOSE t \in s : TRUE) \o ">"
    ELSE "Map<?>"

introspectMap(m) == mapType(mapPairTypes(m.env))

\* s.split(": ") [1]: what stands between the first and the second ": "
SplitSecond(s) ==
  LET ps == {p \in 1..(Len(s) - 1) : SubSeq(s, p, p + 1) = ": "}
      p1 == CHOOSE p \in ps : \A q \in ps : p <= q
      qs == {p \in ps : p >= p1 + 2}
  IN IF ps = {} THEN "undefined"
     ELSE IF qs = {} THEN SubSeq(s, p1 + 2, Len(s))
     ELSE SubSeq(s, p1 + 2, (CHOOSE p \in qs : \A q \in qs : p <= q) - 1)

\* the strings `${k}: ${v}` of the properties of an object, in key order
entryTypes(entries) ==
  IF Len(entries) < 2 THEN <<>>
  ELSE <<entries[1].repr \o ": " \o introspect(entries[2])>>
       \o entryTypes(SubSeq(entries, 3, Len(entries)))

\* the descriptor of a plain object whose properties have the strings ts
objType(ts) ==
  IF Len(ts) <= MAX_REC_SIZE
    THEN IF Cardinality({ts[i] : i \in 1..Len(ts)}) = 1
           THEN "{String: " \o SplitSecond(ts[1]) \o "}"
           ELSE "{" \o JoinTypes(ts, ", ") \o "}"
    ELSE IF Cardinality({ts[i] : i \in 1..Len(ts)}) = 1
           THEN "{String: " \o SplitSecond(ts[1]) \o "}"
           ELSE "{?}"

introspectObj(o, tag) ==
  IF tag = "Object" THEN objType(entryTypes(o.env)) ELSE tag

\* r.length > MAX_REC_SIZE: the property length of the Record, if it has one
RecTooLong(r) ==
  \E i \in 1..(Len(r.env) \div 2) :
    /\ r.env[2 * i - 1] = Str("length")
    /\ r.env[2 * i].typeof = "number"
    /\ \/ r.env[2 * i].repr = "Infinity"
       \/ r.env[2 * i].repr = "finite" /\ r.env[2 * i].num > MAX_REC_SIZE

\* every property gives introspect(`${k}: ${r[k]}`), the descriptor of a
\* string
introspectRec(r) ==
  IF RecTooLong(r) THEN "Record<?>"
  ELSE "Record<"
       \o JoinTypes([i \in 1..(Len(r.env) \div 2) |->
                        introspect(Str(r.env[2 * i - 1].repr \o ": "))], ", ")
       \o ">"

introspectTup(xs) ==
  IF Len(xs.env) > MAX_TUP_SIZE THEN "Tuple<?>"
  ELSE "Tuple<"
       \o JoinTypes([i \in 1..Len(xs.env) |->
                        IF xs.env[i] = Hole THEN "Undefined"
                        ELSE introspect(xs.env[i])], ", ")
       \o ">"

\* the descriptor of x where introspect returns one; a bigint falls through
\* the switch, and the undefined that comes back reads "undefined" inside
\* the descriptor of a container
introspect(x) ==
  CASE x.typeof = "boolean" -> "Boolean"
    [] x.typeof = "function" -> "λ" \o FnName(x)
    [] x.typeof = "number" ->
         IF x.repr = "NaN" THEN "NaN"
         ELSE IF x.repr # "finite" THEN "Infinity"
         ELSE "Number"
    [] x.typeof = "object" ->
         IF HasSIG(x) THEN x.env[1].repr
         ELSE CASE toTypeTag(x) = "Array" -> introspectArr(x)
           [] toTypeTag(x) = "Map" -> introspectMap(x)
           [] toTypeTag(x) = "Null" -> "Null"
           [] toTypeTag(x) = "Record" -> introspectRec(x)
           [] toTypeTag(x) = "Set" -> introspectSet(x)
           [] toTypeTag(x) = "Tuple" -> introspectTup(x)
           [] OTHER -> introspectObj(x, toTypeTag(x))
    [] x.typeof = "string" -> "String"
    [] x.typeof = "symbol" -> "Symbol"
    [] x.typeof = "undefined" -> "Undefined"
    [] OTHER -> "undefined"

\* the prototypes with a Symbol.toPrimitive that throws
NoCoercion ==
  { "All", "Any", "Char", "Float", "Integer", "Product", "Record", "Sum",
    "Tuple" }

\* the error of `${v}`, if it throws: a symbol has no conversion to a
\* string, and a value of the types above forbids it
ToStringError(v) ==
  IF v.typeof = "symbol" THEN "TypeError"
  ELSE IF v.typeof = "object" /\ v.repr \in NoCoercion THEN "TypeCoercion"
  ELSE ""

\* the first error of a sequence of errors, "" where there is none
FirstError(es) ==
  IF \A i \in 1..Len(es) : es[i] = "" THEN ""
  ELSE es[CHOOSE i \in 1..Len(es) :
            es[i] # "" /\ \A j \in 1..(i - 1) : es[j] = ""]

RECURSIVE introspectError(_)
\* the error introspect(x) throws, "" where it returns: the only statement
\* of introspect that can throw is the template `${k}: ${r[k]}` of
\* introspectRec, reached for every Record nested in x
introspectError(x) ==
  IF x.typeof # "object" \/ HasSIG(x) THEN ""
  ELSE CASE toTypeTag(x) = "Array" ->
              FirstError([i \in 1..Len(Present(x.env)) |->
                            introspectError(Present(x.env)[i])])
         [] toTypeTag(x) \in {"Map", "Set"} ->
              FirstError([i \in 1..Len(x.env) |-> introspectError(x.env[i])])
         [] toTypeTag(x) = "Object" ->
              FirstError([i \in 1..(Len(x.env) \div 2) |->
                            introspectError(x.env[2 * i])])
         [] toTypeTag(x) = "Record" ->
              IF RecTooLong(x) THEN ""
              ELSE FirstError([i \in 1..(Len(x.env) \div 2) |->
                                 ToStringError(x.env[2 * i])])
         [] toTypeTag(x) = "Tuple" ->
              IF Len(x.env) > MAX_TUP_SIZE THEN ""
              ELSE FirstError([i \in 1..Len(x.env) |->
                                 introspectError(x.env[i])])
         [] OTHER -> ""

(***************************************************************************)
(* Strings, arrays and numbers as Javascript computes them                 *)
(***************************************************************************)
Digit(d) == SubSeq("0123456789", d + 1, d + 1)

RECURSIVE NatToString(_)
\* Number.prototype.toString of a non-negative integer
NatToString(n) ==
  IF n < 10 THEN Digit(n) ELSE NatToString(n \div 10) \o Digit(n % 10)

\* String(x), for the values whose conversion the model needs
JsString(x) ==
  CASE x.typeof = "string" -> x.repr
    [] x.typeof = "number" /\ x.repr = "finite" -> NatToString(x.num)
    [] x.typeof = "number" -> x.repr
    [] x.typeof = "undefined" -> "undefined"
    [] OTHER -> "[object " \o toTypeTag(x) \o "]"

RECURSIVE ArrayJoin(_, _)
\* Array.prototype.join: undefined and null elements become the empty string
ArrayJoin(xs, sep) ==
  IF Len(xs) = 0 THEN ""
  ELSE LET e == IF xs[Len(xs)].typeof = "undefined" THEN ""
                ELSE JsString(xs[Len(xs)])
       IN IF Len(xs) = 1 THEN e
          ELSE ArrayJoin(SubSeq(xs, 1, Len(xs) - 1), sep) \o sep \o e

\* the i-th formal parameter: undefined when the caller passed fewer
Arg(args, i) == IF i <= Len(args) THEN args[i] ELSE Undefined

IsDigits(s) ==
  /\ Len(s) > 0
  /\ \A i \in 1..Len(s) : \E d \in 0..9 : SubSeq(s, i, i) = Digit(d)

RECURSIVE StrToNat(_)
\* the number a string of decimal digits denotes
StrToNat(s) ==
  LET d == CHOOSE d \in 0..9 : Digit(d) = SubSeq(s, Len(s), Len(s))
  IN IF Len(s) = 1 THEN d ELSE StrToNat(SubSeq(s, 1, Len(s) - 1)) * 10 + d

\* ToNumber: a string of digits converts to its number, the empty string to
\* 0, every other non-number of the model to NaN
ToNumber(x) ==
  CASE x.typeof = "number" -> x
    [] x.typeof = "string" /\ IsDigits(x.repr) -> Num(StrToNat(x.repr))
    [] x.typeof = "string" /\ x.repr = "" -> Num(0)
    [] OTHER -> NaN

\* m / n on non-negative numbers; a quotient that is no integer keeps its
\* numerator and denominator
JsDiv(m, n) ==
  LET a == ToNumber(m)
      b == ToNumber(n)
  IN CASE a.repr = "NaN" \/ b.repr = "NaN" -> NaN
       [] a.repr = "Infinity" /\ b.repr = "Infinity" -> NaN
       [] a.repr = "Infinity" -> Infinity
       [] b.repr = "Infinity" -> Num(0)
       [] b.num = 0 -> IF a.num = 0 /\ a.env = <<>> THEN NaN ELSE Infinity
       [] a.env = <<>> /\ b.env = <<>> /\ a.num % b.num = 0
            -> Num(a.num \div b.num)
       [] OTHER -> V("number", "finite", 0, <<a, b>>)

\* ordinal: n + (s[(v - 20) % 10] || s[v] || s[0]) with s = th, st, nd, rd;
\* for v < 20 the first index is negative and selects nothing
OrdinalSuffix(n) ==
  LET s == <<"th", "st", "nd", "rd">>
      v == n % 100
      i == (v - 20) % 10
  IN IF v >= 20 /\ i <= 3 THEN s[i + 1]
     ELSE IF v <= 3 THEN s[v + 1]
     ELSE s[1]

\* the places of the o that open a group of s which closes at j: no further
\* o and no c lies in between
Opens(s, o, c, j) ==
  {i \in 1..(j - 1) :
     /\ SubSeq(s, i, i) = o
     /\ \A k \in (i + 1)..(j - 1) : SubSeq(s, k, k) \notin {o, c}}

\* the places of the c that close a group of s
Closes(s, o, c) ==
  {j \in 1..Len(s) : SubSeq(s, j, j) = c /\ Opens(s, o, c, j) # {}}

RECURSIVE ReplaceGroups(_, _, _)
RECURSIVE ReplaceFrom(_, _, _, _)
\* s.replace(/o[^oc]*c/g, "_") for an opening character o and a closing
\* character c: every group that holds no further o or c becomes "_"
ReplaceGroups(s, o, c) ==
  IF Closes(s, o, c) = {} THEN s
  ELSE ReplaceFrom(s, o, c,
                   CHOOSE j \in Closes(s, o, c) : \A k \in Closes(s, o, c) : j <= k)

\* the same for an s whose first group closes at j
ReplaceFrom(s, o, c, j) ==
  SubSeq(s, 1, (CHOOSE i \in Opens(s, o, c, j) : TRUE) - 1) \o "_"
    \o ReplaceGroups(SubSeq(s, j + 1, Len(s)), o, c)

RECURSIVE aux(_)
RECURSIVE auxNext(_, _)
\* the local function aux of replaceNestings
aux(s_) ==
  auxNext(s_, ReplaceGroups(ReplaceGroups(ReplaceGroups(s_, "[", "]"),
                                          "{", "}"), "<", ">"))

\* if (t === s_) return t; else return aux(t)
auxNext(s_, t) == IF t = s_ THEN t ELSE aux(t)

\* s.match(/^[\[{<]|[\]}>]$/g): the bracket s starts with and the bracket it
\* ends with, as far as they are there
MatchEnds(s) ==
  (IF Len(s) > 0 /\ SubSeq(s, 1, 1) \in {"[", "{", "<"}
     THEN <<SubSeq(s, 1, 1)>> ELSE <<>>)
  \o (IF Len(s) > 0 /\ SubSeq(s, Len(s), Len(s)) \in {"]", "}", ">"}
        THEN <<SubSeq(s, Len(s), Len(s))>> ELSE <<>>)

\* the body of replaceNestings for a string that match finds a bracket in:
\* `${xs[0]}${aux(s.slice(1, -1))}${xs[1]}`
replaceNestings(s) ==
  MatchEnds(s)[1] \o aux(SubSeq(s, 2, Len(s) - 1))
    \o (IF Len(MatchEnds(s)) > 1 THEN MatchEnds(s)[2] ELSE "undefined")

\* s.search(/\?|,/) !== -1
HasMarkOrComma(s) == \E i \in 1..Len(s) : SubSeq(s, i, i) \in {"?", ","}

\* xs.concat(ys): an array takes the elements of an array ys, or ys itself
\* as one element; a string takes String(ys); no other value of the model
\* has a method concat
concat(xs, ys) ==
  CASE xs.typeof = "object" /\ xs.repr = "Array" ->
         ArrObj(xs.env \o (IF ys.typeof = "object" /\ ys.repr = "Array"
                             THEN ys.env ELSE <<ys>>))
    [] xs.typeof = "string" -> Str(xs.repr \o JsString(ys))
    [] OTHER -> Undefined

HasConcat(xs) ==
  \/ xs.typeof = "object" /\ xs.repr = "Array"
  \/ xs.typeof = "string"

\* the suffix for a number that % 100 makes NaN of: s[NaN] is undefined
OrdinalSuffixOf(v) == IF v.repr = "finite" THEN OrdinalSuffix(v.num) ELSE "th"

\* the default dispatcher of the overloaded functions
\* String.prototype.toUpperCase on one character
ToUpperCase(ch) ==
  IF \E i \in 1..26 : SubSeq("abcdefghijklmnopqrstuvwxyz", i, i) = ch
    THEN LET i == CHOOSE j \in 1..26 :
                    SubSeq("abcdefghijklmnopqrstuvwxyz", j, j) = ch
         IN SubSeq("ABCDEFGHIJKLMNOPQRSTUVWXYZ", i, i)
    ELSE ch

\* String.prototype.toLowerCase on one character
ToLowerCase(ch) ==
  IF \E i \in 1..26 : SubSeq("ABCDEFGHIJKLMNOPQRSTUVWXYZ", i, i) = ch
    THEN LET i == CHOOSE j \in 1..26 :
                    SubSeq("ABCDEFGHIJKLMNOPQRSTUVWXYZ", j, j) = ch
         IN SubSeq("abcdefghijklmnopqrstuvwxyz", i, i)
    ELSE ch

\* n % 1 !== 0: a quotient the model keeps as numerator and denominator is
\* no integer, and NaN % 1 and Infinity % 1 are NaN
HasFraction(n) == n.repr # "finite" \/ n.env # <<>>

\* arg[0].toLowerCase() === arg[0], for a string with a first character
StartsLower(s) == ToLowerCase(SubSeq(s, 1, 1)) = SubSeq(s, 1, 1)

dispatcher(x) == IF x.typeof = "function" THEN FnName(x) ELSE toTypeTag(x)

RECURSIVE MapGet(_, _)
\* Map.prototype.get on the entries k1, v1, k2, v2, ..
MapGet(entries, k) ==
  IF Len(entries) < 2 THEN Undefined
  ELSE IF entries[1] = k THEN entries[2]
  ELSE MapGet(SubSeq(entries, 3, Len(entries)), k)

\* a Map whose set leaves the value of an existing key as it is
MapSet_keepsFirst(entries, k, v) ==
  IF MapGet(entries, k) # Undefined THEN entries ELSE entries \o <<k, v>>

RECURSIVE MapSet(_, _, _)
\* Map.prototype.set: an existing key keeps its place, a new one goes last
MapSet(entries, k, v) ==
  IF Len(entries) < 2 THEN <<k, v>>
  ELSE IF entries[1] = k THEN <<k, v>> \o SubSeq(entries, 3, Len(entries))
  ELSE <<entries[1], entries[2]>> \o MapSet(SubSeq(entries, 3, Len(entries)), k, v)

(***************************************************************************)
(* Callables: a guarded function is a Proxy with the state of its handler  *)
(* (handleF's closure), an unguarded one is the raw function               *)
(***************************************************************************)
Proxy(name, f, log, params, nthCall) ==
  [proxy |-> TRUE, name |-> name, f |-> f, log |-> log,
   params |-> params, nthCall |-> nthCall]

Raw(f) ==
  [proxy |-> FALSE, name |-> "", f |-> f, log |-> <<>>,
   params |-> "fix", nthCall |-> 0]

\* a guard that does not look at the flag
Guard_ignoresFlag(name, f) ==
  IF Len(name) >= 3 /\ SubSeq(name, 1, 3) = "..."
    THEN Proxy(SubSeq(name, 4, Len(name)), f, <<>>, "var", 0)
    ELSE Proxy(name, f, <<>>, "fix", 0)

\* the function guard $
Guard(name, f) ==
  IF GUARDED
    THEN IF Len(name) >= 3 /\ SubSeq(name, 1, 3) = "..."
           THEN Proxy(SubSeq(name, 4, Len(name)), f, <<>>, "var", 0)
           ELSE Proxy(name, f, <<>>, "fix", 0)
    ELSE Raw(f)

\* a history that pops one entry too early
setHistory_popsEarly(h, s) ==
  LET h1 == <<s>> \o h
  IN IF Len(h1) >= HISTORY_LEN THEN SubSeq(h1, 1, Len(h1) - 1) ELSE h1

\* history.unshift(s), then history.pop() beyond HISTORY_LEN entries
setHistory(h, s) ==
  LET h1 == <<s>> \o h
  IN IF Len(h1) > HISTORY_LEN THEN SubSeq(h1, 1, Len(h1) - 1) ELSE h1

\* the outcome of a call: what it returned or which error it threw, the
\* globals it leaves behind (st), whether the guarded function itself ran,
\* and the call and argument ordinals an error message names
Returned(v, st) ==
  [kind |-> "return", val |-> v, cont |-> {}, st |-> st,
   invoked |-> TRUE, onCall |-> "", inArg |-> ""]

Thrown(k, st, inv, onCall, inArg) ==
  [kind |-> k, val |-> Undefined, cont |-> {}, st |-> st,
   invoked |-> inv, onCall |-> onCall, inArg |-> inArg]

\* verifyArity with the exact comparison in both modes
ArityViolated_exactInVar(params, declared, received) ==
  declared # received

\* the conditions under which verifyArity throws
ArityViolated(params, declared, received) ==
  \/ params = "fix" /\ declared # received
  \/ params = "var" /\ declared > received

\* a lookup that misses the marker of the non-finite numbers
IsInvalidType_noInfinity(t) == t \in {"Undefined", "NaN"}

\* INVALID_TYPES.has(t)
IsInvalidType(t) == t \in INVALID_TYPES

\* what the callback of args.map in verifyArgTypes returns for a valid
\* argument: its block has no return statement
ArgTypeOf(arg) == Undefined

\* r.name || name
ContinuationName(r, name) == IF FnName(r) # "" THEN FnName(r) ELSE name

RECURSIVE Invoke(_, _, _)
RECURSIVE apply(_, _, _)
RECURSIVE Call(_, _, _)
RECURSIVE verifyArity(_, _, _, _, _, _, _)
RECURSIVE verifyArgTypes(_, _, _, _, _)

\* a call of a function value as the caller sees it
Call(c, args, st) ==
  IF c.proxy THEN apply(c, args, st) ELSE Invoke(c.f, args, st)

\* the guarded ordinal, called for the message of an error
ordinal(n, st) == Call(Guard("ordinal", Fun("ordinal", <<>>)), <<n>>, st)

\* the error of the given kind, thrown once the message is built: o is the
\* outcome of the call of ordinal in it
ThrownAfter(kind, o, inv, onCall, inArg) ==
  IF o.kind # "return" THEN o ELSE Thrown(kind, o.st, inv, onCall, inArg)

\* the throw of verifyArity: o is the outcome of ordinal(nthCall + 1)
ArityThrown(o) == ThrownAfter("Arity", o, FALSE, o.val.repr, "")

verifyArity(g, args, name, params, nthCall, log, st) ==
  IF ArityViolated(params, FnLength(g), Len(args))
    THEN ArityThrown(ordinal(Num(nthCall + 1), st))
    ELSE Returned(Undefined, st)

\* the arguments, by position, whose descriptor is an invalid type
BadArgs(args) == {i \in 1..Len(args) : IsInvalidType(introspect(args[i]))}

\* the throw of verifyArgTypes: o1 and o2 are the outcomes of
\* ordinal(nthCall + 1) and ordinal(nthArg + 1)
ArgTypeThrown2(o1, o2) ==
  IF o2.kind # "return" THEN o2
  ELSE ThrownAfter("ArgType", o2, FALSE, o1.val.repr, o2.val.repr)

ArgTypeThrown(o1, nthArg) ==
  IF o1.kind # "return" THEN o1
  ELSE ArgTypeThrown2(o1, ordinal(Num(nthArg + 1), o1.st))

verifyArgTypes(args, name, nthCall, log, st) ==
  IF BadArgs(args) # {}
    THEN ArgTypeThrown(
           ordinal(Num(nthCall + 1), st),
           (CHOOSE i \in BadArgs(args) : \A j \in BadArgs(args) : i <= j) - 1)
    ELSE Returned(
           Str(ArrayJoin([i \in 1..Len(args) |-> ArgTypeOf(args[i])], ", ")),
           st)

\* the second check, made when the first one, with the outcome a, has passed
ThenCheck(a, b) == IF b.kind # "return" THEN b ELSE [a EXCEPT !.st = b.st]

\* the two checks in the other order
verifyCall_typesFirstNext(c, args, a) ==
  IF a.kind # "return" THEN a
  ELSE ThenCheck(a, verifyArity(c.f, args, c.name, c.params, c.nthCall,
                                c.log, a.st))

verifyCall_typesFirst(c, args, st) ==
  verifyCall_typesFirstNext(
    c, args, verifyArgTypes(args, c.name, c.nthCall, c.log, st))

\* the argument check, made when verifyArity, with the outcome a, has passed
verifyCallNext(c, args, a) ==
  IF a.kind # "return" THEN a
  ELSE verifyArgTypes(args, c.name, c.nthCall, c.log, a.st)

\* the two checks handleF.apply makes before it steps into the call
verifyCall(c, args, st) ==
  verifyCallNext(
    c, args, verifyArity(c.f, args, c.name, c.params, c.nthCall, c.log, st))

\* a return check that only looks for undefined
RetTypeViolated_undefinedOnly(r) == introspect(r) = "Undefined"

\* verifyRetType throws
RetTypeViolated(r) == IsInvalidType(introspect(r))

\* a continuation that is handed the log and the counter as they are
Continuation_sameLog(c, r, argTypes) ==
  Proxy(ContinuationName(r, c.name), r, c.log, c.params, c.nthCall)

\* the wrapper handleF.apply returns for a result r that is a function
Continuation(c, r, argTypes) ==
  Proxy(ContinuationName(r, c.name), r,
        Append(c.log, c.name \o "(" \o argTypes \o ")"),
        c.params, c.nthCall + 1)

\* the globals after setHistory(entry)
Logged(st, entry) ==
  [st EXCEPT !.history = setHistory(@, entry),
             !.completed = Append(@, entry)]

\* log.concat(`${name}(${argTypes})`)
Entry(c, argTypes) == Append(c.log, c.name \o "(" \o argTypes \o ")")

\* an apply trap that calls setHistory before it looks at the result
apply_logsEveryCallReturned(c, ck, r) ==
  IF r.kind # "return" THEN [r EXCEPT !.invoked = TRUE]
  ELSE IF RetTypeViolated(r.val)
    THEN Thrown("ReturnType", r.st, TRUE, "", "")
  ELSE IF r.val.typeof = "function"
    THEN [Returned(r.val, Logged(r.st, Entry(c, ck.val.repr))) EXCEPT
            !.cont = {Continuation(c, r.val, ck.val.repr)}]
  ELSE Returned(r.val, Logged(r.st, Entry(c, ck.val.repr)))

apply_logsEveryCallChecked(c, args, ck) ==
  IF ck.kind # "return" THEN ck
  ELSE apply_logsEveryCallReturned(c, ck, Invoke(c.f, args, ck.st))

apply_logsEveryCall(c, args, st) ==
  apply_logsEveryCallChecked(c, args, verifyCall(c, args, st))

\* the apply trap once f has come back with the outcome r: the check of
\* the result, then the wrapper for a function or the entry in the history
applyReturned(c, ck, r) ==
  IF r.kind # "return" THEN [r EXCEPT !.invoked = TRUE]
  ELSE IF RetTypeViolated(r.val)
    THEN Thrown("ReturnType", r.st, TRUE, "", "")
  ELSE IF r.val.typeof = "function"
    THEN [Returned(r.val, r.st) EXCEPT
            !.cont = {Continuation(c, r.val, ck.val.repr)}]
  ELSE Returned(r.val, Logged(r.st, Entry(c, ck.val.repr)))

\* the apply trap once the two checks have come back with the outcome ck
applyChecked(c, args, ck) ==
  IF ck.kind # "return" THEN ck
  ELSE applyReturned(c, ck, Invoke(c.f, args, ck.st))

\* the apply trap of handleF
apply(c, args, st) == applyChecked(c, args, verifyCall(c, args, st))

\* the guarded stringify, called for the message of an error
stringify(x, st) == Call(Guard("stringify", Fun("stringify", <<>>)), <<x>>, st)

\* an overloaded function that does not test what the lookup found
overloaded_noTestFound(x, st, r) ==
  IF r.typeof = "function" THEN Invoke(r, <<x>>, st)
  ELSE Returned(r, st)

overloaded_noTest(x, st) ==
  overloaded_noTestFound(x, st, MapGet(st.pairs, Str(dispatcher(x))))

\* an overloaded function that returns what the lookup found as it is
overloaded_noCallFound(x, st, r) ==
  IF r = Undefined
    THEN ThrownAfter("Overload", stringify(Str(dispatcher(x)), st), TRUE, "", "")
  ELSE Returned(r, st)

overloaded_noCall(x, st) ==
  overloaded_noCallFound(x, st, MapGet(st.pairs, Str(dispatcher(x))))

\* the overloaded function once pairs.get has come back with r
overloadedFound(x, st, r) ==
  IF r = Undefined
    THEN ThrownAfter("Overload", stringify(Str(dispatcher(x)), st), TRUE, "", "")
  ELSE IF r.typeof = "function" THEN Invoke(r, <<x>>, st)
  ELSE Returned(r, st)

\* the function overload returns under the name of the operation
overloaded(x, st) ==
  overloadedFound(x, st, MapGet(st.pairs, Str(dispatcher(x))))

\* the sum type guard $sum: the function it returns in place of f
SumGuard(name, f, tags) ==
  IF GUARDED THEN Fun("$sum", <<Str(name), f, ArrObj(tags)>>) ELSE f

\* Object.keys(o)
ObjectKeys(o) == [i \in 1..(Len(o.env) \div 2) |-> o.env[2 * i - 1]]

\* the tags that are no key of cases, in the order of tags, and the keys of
\* cases that are no tag, in the order of the keys
MissingTags(tags, cases) ==
  SelectSeq(tags, LAMBDA t :
    \A i \in 1..Len(ObjectKeys(cases)) : ObjectKeys(cases)[i] # t)

ExtraKeys(tags, cases) ==
  SelectSeq(ObjectKeys(cases), LAMBDA k : \A i \in 1..Len(tags) : tags[i] # k)

\* an error thrown before f is called, whose message names what
ThrownNaming(kind, what, st) ==
  [Thrown(kind, st, FALSE, "1st", "1st") EXCEPT !.val = Str(what)]

\* the function $sum returns once f has come back with the outcome r
sumReturned(name, r) ==
  IF r.kind = "return" /\ r.val.typeof = "function"
    THEN [r EXCEPT !.cont = {Guard("run" \o name, r.val)}]
    ELSE [r EXCEPT !.invoked = TRUE]

\* a guard that asks for the tags and lets every other key pass
sumCases_noExtraTest(name, f, tags, cases, st) ==
  IF toTypeTag(cases) # "Object"
    THEN Thrown("ArgType", st, FALSE, "1st", "1st")
  ELSE IF MissingTags(tags, cases) # <<>>
    THEN ThrownNaming("ArgValue", MissingTags(tags, cases)[1].repr, st)
  ELSE sumReturned(name, Invoke(f, <<cases>>, st))

\* the function $sum returns, called with cases
sumCases(name, f, tags, cases, st) ==
  IF toTypeTag(cases) # "Object"
    THEN Thrown("ArgType", st, FALSE, "1st", "1st")
  ELSE IF MissingTags(tags, cases) # <<>>
    THEN ThrownNaming("ArgValue", MissingTags(tags, cases)[1].repr, st)
  ELSE IF ExtraKeys(tags, cases) # <<>>
    THEN ThrownNaming("ArgValue", ArrayJoin(ExtraKeys(tags, cases), ", "), st)
  ELSE sumReturned(name, Invoke(f, <<cases>>, st))

\* Type(name, ...tags) (tag) (Dcons): the value of the type
TypeValue(name, tags, tag, Dcons, st) ==
  IF GUARDED /\ Dcons.typeof # "function"
    THEN Thrown("ArgType", st, FALSE, "3rd", "1st")
  ELSE IF GUARDED /\ FnLength(Dcons) # 1
    THEN Thrown("Arity", st, FALSE, "3rd", "1st")
  ELSE Returned(Tagged(name,
                       IF GUARDED THEN Str(name \o "<λ>") ELSE Undefined,
                       tag.repr,
                       SumGuard("run" \o name, Dcons, tags)), st)

EitherTags == <<Str("Left"), Str("Right")>>
ComparatorTags == <<Str("LT"), Str("EQ"), Str("GT")>>

\* the constructor Int: the message of its ArgValueError reads the variable
\* c, which the constructor does not have, its parameter is n
Int_(n, st) ==
  IF GUARDED /\ n.typeof # "number"
    THEN Thrown("ArgType", st, FALSE, "1st", "1st")
  ELSE IF GUARDED /\ HasFraction(n)
    THEN Thrown("ReferenceError", st, FALSE, "", "")
  ELSE Returned(Boxed("Integer", n), st)

\* the constructor Char
Char(c, st) ==
  IF GUARDED /\ c.typeof # "string"
    THEN Thrown("ArgType", st, FALSE, "1st", "1st")
  ELSE IF GUARDED /\ Len(c.repr) # 1
    THEN ThrownNaming("ArgValue", c.repr, st)
  ELSE Returned(Boxed("Char", c), st)

\* the outcome of the test of one argument of Type: both messages read the
\* variable ntgArg, which the module does not declare, the parameter of
\* the callback is nthArg
TypeArg(arg, st) ==
  IF arg.typeof # "string" THEN Thrown("ReferenceError", st, FALSE, "", "")
  ELSE IF arg.repr = "" THEN Thrown("TypeError", st, FALSE, "", "")
  ELSE IF StartsLower(arg.repr)
    THEN Thrown("ReferenceError", st, FALSE, "", "")
  ELSE Returned(Undefined, st)

\* Type(name, ...tags): args is the name followed by the tags
Type(args, st) ==
  IF GUARDED /\ \E i \in 1..Len(args) : TypeArg(args[i], st).kind # "return"
    THEN TypeArg(args[CHOOSE i \in 1..Len(args) :
                        /\ TypeArg(args[i], st).kind # "return"
                        /\ \A j \in 1..(i - 1) :
                             TypeArg(args[j], st).kind = "return"], st)
    ELSE Returned(Fun("Type.tag", args), st)

\* Data(name)
Data(name, st) ==
  IF GUARDED /\ name.typeof # "string"
    THEN Thrown("ArgType", st, FALSE, "1st", "1st")
  ELSE IF GUARDED /\ name.repr = ""
    THEN Thrown("TypeError", st, FALSE, "", "")
  ELSE IF GUARDED /\ StartsLower(name.repr)
    THEN ThrownNaming("ArgValue", name.repr, st)
  ELSE Returned(Fun("Data.Dcons", <<name>>), st)

\* x === y
StrictEquals(x, y) == x = y /\ x.repr # "NaN"

\* x[TAG]
TagOf(x) == IF Len(x.env) = 3 THEN x.env[2] ELSE Undefined

\* the registry of the overloaded function eq, as the calls of eqAdd at
\* load time leave it, for the types of the values the model compares
EqPairs ==
  <<Str("Number"), Fun("eq_", <<>>), Str("String"), Fun("eq_", <<>>),
    Str("Boolean"), Fun("eq_", <<>>), Str("Either"), Fun("eqEither", <<>>)>>

\* the call of what the call with the outcome o has returned
CallNext(o, args) ==
  IF o.kind # "return" THEN o
  ELSE Call(IF o.cont # {} THEN CHOOSE k \in o.cont : TRUE ELSE Raw(o.val),
            args, o.st)

\* eq(x) (y)
eq(x, y, st) == CallNext(Call(Guard("eq", Fun("eq", <<>>)), <<x>>, st), <<y>>)

\* tx.runEither(cases) and the like: the property run of the value tx
runOf(tx, cases, st) == Invoke(tx.env[3], <<cases>>, st)

\* eqEither(tx) (ty)
eqEither(tx, ty, st) ==
  IF TagOf(tx) # TagOf(ty) THEN Returned(Bool(FALSE), st)
  ELSE runOf(tx, ObjObj(<<Str("Left"), Fun("eqEither.Left", <<ty>>),
                         Str("Right"), Fun("eqEither.Right", <<ty>>)>>),
             st)

\* the marker recur(...args) returns: {type: recur, args}
RecurMarker(args) ==
  ObjObj(<<Str("type"), Fun("recur", <<>>), Str("args"), ArrObj(args)>>)

\* acc && acc.type === recur
IsRecur(acc) ==
  /\ acc.typeof = "object" /\ acc.repr = "Object"
  /\ MapGet(acc.env, Str("type")) = Fun("recur", <<>>)

\* a parameter with a default value: the default stands in for undefined
Default(args, i, d) == IF Arg(args, i) = Undefined THEN d ELSE Arg(args, i)

RECURSIVE loopFrom_once(_, _)
\* a loop that calls f again once, for the first marker only
loopFrom_once(f, o) ==
  IF o.kind = "return" /\ IsRecur(o.val)
    THEN Invoke(f, MapGet(o.val.env, Str("args")).env, o.st)
    ELSE o

RECURSIVE loopFrom(_, _)
\* the while loop of loop, entered with the outcome o of the last call of f
loopFrom(f, o) ==
  IF o.kind = "return" /\ IsRecur(o.val)
    THEN loopFrom(f, Invoke(f, MapGet(o.val.env, Str("args")).env, o.st))
    ELSE o

\* the bodies of the functions of the source
Invoke(f, args, st) ==
  IF f.typeof # "function" THEN Thrown("TypeError", st, FALSE, "", "")
  ELSE CASE f.repr = "toTypeTag" -> Returned(Str(toTypeTag(Arg(args, 1))), st)
    [] f.repr = "ordinal" ->
         Returned(Str(JsString(Arg(args, 1))
                      \o OrdinalSuffixOf(ToNumber(Arg(args, 1)))), st)
    [] f.repr = "replaceNestings" ->
         IF MatchEnds(Arg(args, 1).repr) = <<>>
           THEN Thrown("TypeError", st, FALSE, "", "")
           ELSE Returned(Str(replaceNestings(Arg(args, 1).repr)), st)
    [] f.repr = "capitalize" ->
         IF Arg(args, 1).typeof # "string" \/ Arg(args, 1).repr = ""
           THEN Thrown("TypeError", st, FALSE, "", "")
           ELSE Returned(Str(ToUpperCase(SubSeq(Arg(args, 1).repr, 1, 1))
                             \o SubSeq(Arg(args, 1).repr, 2,
                                       Len(Arg(args, 1).repr))), st)
    [] f.repr = "$sum" ->
         sumCases(f.env[1].repr, f.env[2], f.env[3].env, Arg(args, 1), st)
    [] f.repr \in {"Left", "Right"} ->
         TypeValue("Either", EitherTags, Str(f.repr),
                   Fun("cases.tag(x)", <<Str(f.repr), Arg(args, 1)>>), st)
    [] f.repr = "cases.tag(x)" ->
         Invoke(MapGet(Arg(args, 1).env, f.env[1]), <<f.env[2]>>, st)
    [] f.repr = "cases.tag" ->
         IF Arg(args, 1).typeof = "undefined" \/ Arg(args, 1) = Null
           THEN Thrown("TypeError", st, FALSE, "", "")
           ELSE Returned(MapGet(Arg(args, 1).env, f.env[1]), st)
    [] f.repr = "eq" ->
         overloadedFound(Arg(args, 1), st,
                         MapGet(EqPairs, Str(dispatcher(Arg(args, 1)))))
    [] f.repr = "eq_" -> Returned(Fun("eq_(x)", <<Arg(args, 1)>>), st)
    [] f.repr = "eq_(x)" ->
         Returned(Bool(StrictEquals(f.env[1], Arg(args, 1))), st)
    [] f.repr = "eqEither" ->
         Returned(Fun("eqEither(tx)", <<Arg(args, 1)>>), st)
    [] f.repr = "eqEither(tx)" -> eqEither(f.env[1], Arg(args, 1), st)
    [] f.repr = "eqEither.Left" ->
         runOf(f.env[1],
               ObjObj(<<Str("Left"), Fun("eq(x)(y)", <<Arg(args, 1)>>)>>), st)
    [] f.repr = "eqEither.Right" ->
         runOf(f.env[1],
               ObjObj(<<Str("Right"), Fun("eq(x)(y)", <<Arg(args, 1)>>)>>), st)
    [] f.repr = "eq(x)(y)" -> eq(f.env[1], Arg(args, 1), st)
    [] f.repr = "loop" -> loopFrom(Arg(args, 1), Invoke(Arg(args, 1), <<>>, st))
    [] f.repr = "recur" -> Returned(RecurMarker(args), st)
    [] f.repr = "sumTo" ->
         IF Default(args, 1, f.env[1]) = Num(0)
           THEN Returned(Default(args, 2, Num(0)), st)
           ELSE Returned(RecurMarker(
                  <<Num(Default(args, 1, f.env[1]).num - 1),
                    Num(Default(args, 2, Num(0)).num
                        + Default(args, 1, f.env[1]).num)>>), st)
    [] f.repr = "after" ->
         IF Default(args, 1, f.env[1]) = Num(0)
           THEN Returned(f.env[2], st)
           ELSE Returned(RecurMarker(
                  <<Num(Default(args, 1, f.env[1]).num - 1)>>), st)
    [] f.repr = "stringify" ->
         Returned(Str(IF Arg(args, 1).typeof = "string"
                        THEN "\"" \o Arg(args, 1).repr \o "\""
                        ELSE JsString(Arg(args, 1))), st)
    [] f.repr = "co" -> Returned(Fun("co_1", <<Arg(args, 1)>>), st)
    [] f.repr = "co_1" -> Returned(f.env[1], st)
    [] f.repr = "id" -> Returned(Arg(args, 1), st)
    [] f.repr = "div" -> Returned(Fun("div_1", <<Arg(args, 1)>>), st)
    [] f.repr = "div_1" -> Returned(JsDiv(f.env[1], Arg(args, 1)), st)
    [] f.repr = "partial" ->
         Returned(Fun("partial_1",
                      <<Arg(args, 1)>>
                        \o (IF Len(args) = 0 THEN <<>> ELSE Tail(args))), st)
    [] f.repr = "partial_1" ->
         Invoke(f.env[1], Tail(f.env) \o args, st)
    [] f.repr = "appendAdd" ->
         LET m == MapSet(st.pairs, Arg(args, 1), Arg(args, 2))
         IN Returned(MapObj(m), [st EXCEPT !.pairs = m])
    [] f.repr = "append" -> overloaded(Arg(args, 1), st)
    [] f.repr = "appendArray" ->
         Returned(Fun("appendArray_1", <<Arg(args, 1)>>), st)
    [] f.repr = "appendArray_1" ->
         IF HasConcat(f.env[1])
           THEN Returned(concat(f.env[1], Arg(args, 1)), st)
           ELSE Thrown("TypeError", st, FALSE, "", "")

(***************************************************************************)
(* The homogeneous containers: Arr, _Map and _Set wrap a container in a    *)
(* Proxy whose handler holds the descriptor t of the container             *)
(***************************************************************************)
\* new Proxy(target, handler(t)); an unwrapped container has the handler none
BoxOf(handler, t, target) == [handler |-> handler, t |-> t, target |-> target]

\* the outcome of a constructor that returns a Proxy
Wrapped(handler, t, target, st) ==
  [Returned(target, st) EXCEPT !.cont = {BoxOf(handler, t, target)}]

IsArray(x) == x.typeof = "object" /\ x.repr = "Array"

\* Arr once the guarded replaceNestings(t) has come back with the outcome n
ArrChecked(xs, t, n) ==
  IF n.kind # "return" THEN n
  ELSE IF HasMarkOrComma(n.val.repr)
    THEN Thrown("ArgType", n.st, TRUE, "1st", "1st")
  ELSE Wrapped("handleArr", t, xs, n.st)

Arr(xs, st) ==
  IF GUARDED
    THEN IF ~IsArray(xs) THEN Thrown("ArgType", st, TRUE, "1st", "1st")
         ELSE ArrChecked(xs, introspect(xs),
                         Call(Guard("replaceNestings",
                                    Fun("replaceNestings", <<>>)),
                              <<Str(introspect(xs))>>, st))
    ELSE Returned(xs, st)

\* String(Number(i)) === i
IsIndexKey(i) == JsString(ToNumber(i)) = i.repr

\* an object with the one property value, as the set trap builds it
DescOf(v) == ObjObj(<<Str("value"), v>>)

\* xs[i] = v and Reflect.defineProperty(xs, i, {value: v, ..}) for an index
\* i: an index beyond the length leaves holes behind it
PutElem(xs, i, v) ==
  LET n == ToNumber(i).num + 1
  IN IF n <= Len(xs.env) THEN ArrObj([xs.env EXCEPT ![n] = v])
     ELSE ArrObj(xs.env \o [k \in 1..(n - 1 - Len(xs.env)) |-> Hole] \o <<v>>)

\* delete xs[i] for an index i: the element goes, the length stays
DeleteElem(xs, i) ==
  LET n == ToNumber(i).num + 1
  IN IF n <= Len(xs.env) THEN ArrObj([xs.env EXCEPT ![n] = Hole]) ELSE xs

\* a setArr without the test of the descriptor
setArr_noTypeTest(xs, i, d, t, mode, st) ==
  IF IsIndexKey(i) /\ ToNumber(i).num > Len(xs.env)
    THEN ThrownAfter("TypeError", ordinal(i, st), TRUE, "", "")
  ELSE Returned(IF IsIndexKey(i) THEN PutElem(xs, i, d.env[2]) ELSE xs, st)

\* a setArr that throws the ArgTypeError of the guard for another descriptor
setArr_argTypeError(xs, i, d, t, mode, st) ==
  IF IsIndexKey(i) /\ ToNumber(i).num > Len(xs.env)
    THEN ThrownAfter("TypeError", ordinal(i, st), TRUE, "", "")
  ELSE IF IsIndexKey(i) /\ "[" \o introspect(d.env[2]) \o "]" # t
    THEN Thrown("ArgType", st, TRUE, "", "")
  ELSE Returned(IF IsIndexKey(i) THEN PutElem(xs, i, d.env[2]) ELSE xs, st)

\* a setArr that takes the length itself for a gap
setArr_gapAtLength(xs, i, d, t, mode, st) ==
  IF IsIndexKey(i) /\ ToNumber(i).num >= Len(xs.env)
    THEN ThrownAfter("TypeError", ordinal(i, st), TRUE, "", "")
  ELSE IF IsIndexKey(i) /\ "[" \o introspect(d.env[2]) \o "]" # t
    THEN Thrown("TypeError", st, TRUE, "", "")
  ELSE Returned(IF IsIndexKey(i) THEN PutElem(xs, i, d.env[2]) ELSE xs, st)

\* setArr: both modes put d.value at i; a key that is no index sets a
\* property of the array that is none of its elements
setArr(xs, i, d, t, mode, st) ==
  IF IsIndexKey(i) /\ ToNumber(i).num > Len(xs.env)
    THEN ThrownAfter("TypeError", ordinal(i, st), TRUE, "", "")
  ELSE IF IsIndexKey(i) /\ "[" \o introspect(d.env[2]) \o "]" # t
    THEN Thrown("TypeError", st, TRUE, "", "")
  ELSE CASE mode = "set" ->
              Returned(IF IsIndexKey(i) THEN PutElem(xs, i, d.env[2]) ELSE xs, st)
         [] mode = "def" ->
              Returned(IF IsIndexKey(i) THEN PutElem(xs, i, d.env[2]) ELSE xs, st)

\* the traps set and defineProperty of handleArr(t)
handleArr_set(xs, i, v, t, st) == setArr(xs, i, DescOf(v), t, "set", st)

handleArr_defineProperty(xs, i, d, t, st) == setArr(xs, i, d, t, "def", st)

\* a deleteProperty that deletes at whatever index
handleArr_deleteProperty_anyIndex(xs, i, st) ==
  Returned(IF IsIndexKey(i) THEN DeleteElem(xs, i) ELSE xs, st)

\* the trap deleteProperty of handleArr(t)
handleArr_deleteProperty(xs, i, st) ==
  IF IsIndexKey(i) /\ ToNumber(i).num # Len(xs.env) - 1
    THEN ThrownAfter("TypeError", ordinal(i, st), TRUE, "", "")
  ELSE Returned(IF IsIndexKey(i) THEN DeleteElem(xs, i) ELSE xs, st)

_Map(m, st) ==
  IF GUARDED
    THEN IF toTypeTag(m) # "Map" THEN Thrown("ArgType", st, TRUE, "1st", "1st")
         ELSE IF introspect(m) = "Map<?>"
           THEN Thrown("ArgType", st, TRUE, "1st", "1st")
         ELSE Wrapped("handleMap", introspect(m), m, st)
    ELSE Returned(m, st)

\* a set of the Map proxy without the test of the descriptor
handleMap_set_noTest(m, k, v, t, st) ==
  Returned(MapObj(MapSet(m.env, k, v)), st)

\* the function the get trap of handleMap(t) returns for the key set
handleMap_set(m, k, v, t, st) ==
  IF "Map<" \o introspect(k) \o ", " \o introspect(v) \o ">" # t
    THEN Thrown("TypeError", st, TRUE, "", "")
    ELSE Returned(MapObj(MapSet(m.env, k, v)), st)

\* _Set: both messages read the variable m, which the module does not
\* declare, so that building either message throws a ReferenceError
_Set(s, st) ==
  IF GUARDED
    THEN IF toTypeTag(s) # "Set"
           THEN Thrown("ReferenceError", st, TRUE, "", "")
         ELSE IF introspect(s) = "Set<?>"
           THEN Thrown("ReferenceError", st, TRUE, "", "")
         ELSE Wrapped("handleSet", introspect(s), s, st)
    ELSE Returned(s, st)

\* Set.prototype.add
SetAdd(s, k) ==
  IF \E i \in 1..Len(s.env) : s.env[i] = k THEN s ELSE SetObj(Append(s.env, k))

\* the function the get trap of handleSet(t) returns for the key set
handleSet_set(s, k, t, st) ==
  IF "Set<" \o introspect(k) \o ">" # t
    THEN Thrown("ArgType", st, TRUE, "", "")
    ELSE Returned(SetAdd(s, k), st)

\* what the get trap of handleSet(t) returns for the key add, as for every
\* key but set that names a method: s.add.bind(s)
handleSet_default_add(s, k, t, st) == Returned(SetAdd(s, k), st)

\* the guarded capitalize, called for the message of an error
capitalize(s, st) ==
  Call(Guard("capitalize", Fun("capitalize", <<>>)), <<s>>, st)

\* a conversion that answers as an object without the trap does
toPrimitive_ordinary(x, hint, st) ==
  Returned(IF hint.repr = "number" THEN NaN ELSE Str("[object Object]"), st)

\* the function the get trap of each handler returns for the key
\* Symbol.toPrimitive, called with the hint of the conversion
handleArr_toPrimitive(xs, hint, st) ==
  ThrownAfter("TypeCoercion", capitalize(hint, st), TRUE, "", "")

handleMap_toPrimitive(m, hint, st) ==
  ThrownAfter("TypeCoercion", capitalize(hint, st), TRUE, "", "")

handleSet_toPrimitive(s, hint, st) ==
  ThrownAfter("TypeCoercion", capitalize(hint, st), TRUE, "", "")

(***************************************************************************)
(* The program: the functions the module defines at load time, and a       *)
(* caller that calls them and the functions they return                    *)
(***************************************************************************)
\* the guarded functions of the module the caller uses
TopLevel ==
  { Guard("co", Fun("co", <<>>)),
    Guard("id", Fun("id", <<>>)),
    Guard("div", Fun("div", <<>>)),
    Guard("...partial", Fun("partial", <<>>)) }

\* the two functions overload("append", dispatcher) returns
appendAdd == Guard("appendAdd", Fun("appendAdd", <<>>))
append == Guard("append", Fun("append", <<>>))

\* the toTypeTag of the source, a function the guard does not wrap
ToTypeTagFn == Fun("toTypeTag", <<>>)

\* the instance of append for arrays: xs => ys => xs.concat(ys)
AppendArray == Fun("appendArray", <<>>)

\* the values a caller passes to each function
ArgValues(f) ==
  CASE f.repr = "id" -> { Num(1), NaN, Infinity, Undefined }
    [] f.repr = "co" -> { Num(1), ToTypeTagFn }
    [] f.repr = "div" -> { Num(0), Num(1) }
    [] f.repr = "partial" -> { ToTypeTagFn, Num(1), NaN }
    [] OTHER -> { Num(0), Num(1), NaN }

ArgLists(f) == UNION {[1..n -> ArgValues(f)] : n \in 0..MaxArgs}

\* the keys and the implementations a caller registers
RegKeys == { Str("Number"), Str("toTypeTag"), Str("Array") }
RegImpls == { ToTypeTagFn, Num(1), AppendArray }
RegLists ==
  { <<Str("Number")>>,
    <<Str("Number"), Num(1)>>,
    <<Str("Number"), ToTypeTagFn>>,
    <<Str("Number"), NaN>>,
    <<Str("toTypeTag"), Num(1)>>,
    <<Str("Array"), AppendArray>>,
    <<Str("Array"), Num(1)>>,
    <<Str("Number"), AppendArray>> }

\* the arguments a caller passes to append, and to the function a call of
\* append returned
DispatchValues == { Num(1), ToTypeTagFn, ArrObj(<<Num(1)>>), Undefined }
DispatchLists ==
  {<<>>, <<Num(1), Num(1)>>} \cup {<<x>> : x \in DispatchValues}
DispatchNextLists == { <<>>, <<ArrObj(<<Num(2)>>)>>, <<Num(1)>> }

\* the arguments of the long runs
HistLists == { <<Num(1)>>, <<NaN>> }

Store == [history |-> history, completed |-> completed, pairs |-> pairs]

\* no container wrapped yet
NoBox == [handler |-> "none", t |-> "", target |-> Undefined]

NoCall ==
  [callee |-> Raw(Undefined), args |-> <<>>, kind |-> "none",
   val |-> Undefined, cont |-> {}, invoked |-> FALSE,
   onCall |-> "", inArg |-> ""]

Init ==
  /\ GUARDED \in BOOLEAN
  /\ history = <<>>
  /\ completed = <<>>
  /\ pairs = <<>>
  /\ held = {}
  /\ done = 0
  /\ last = NoCall
  /\ registered = <<>>
  /\ box = NoBox

\* a caller whose continuation keeps its log and its counter in fields a
\* call writes to
Commit_advancesHeld(c, args, r) ==
  LET k == IF r.kind = "return" /\ r.val.typeof = "function" /\ r.cont = {}
             THEN {Raw(r.val)} ELSE r.cont
  IN /\ history' = r.st.history
     /\ completed' = r.st.completed
     /\ pairs' = r.st.pairs
     /\ held' = IF k = {}
                  THEN {[h EXCEPT !.log = Append(@, ""),
                                  !.nthCall = @ + 1] : h \in held}
                  ELSE k
     /\ done' = IF k = {} THEN done + 1 ELSE done
     /\ last' = [callee |-> c, args |-> args, kind |-> r.kind, val |-> r.val,
                 cont |-> k, invoked |-> r.invoked,
                 onCall |-> r.onCall, inArg |-> r.inArg]
     /\ registered' = registered
     /\ UNCHANGED <<GUARDED, box>>

\* the caller takes the outcome r of its call of c: it keeps a function it
\* got back, and counts a call that ended its chain of calls
Commit(c, args, r) ==
  LET k == IF r.kind = "return" /\ r.val.typeof = "function" /\ r.cont = {}
             THEN {Raw(r.val)} ELSE r.cont
  IN /\ history' = r.st.history
     /\ completed' = r.st.completed
     /\ pairs' = r.st.pairs
     /\ held' = IF k = {} THEN held ELSE k
     /\ done' = IF k = {} THEN done + 1 ELSE done
     /\ last' = [callee |-> c, args |-> args, kind |-> r.kind, val |-> r.val,
                 cont |-> k, invoked |-> r.invoked,
                 onCall |-> r.onCall, inArg |-> r.inArg]
     /\ registered' = IF c.f.repr = "appendAdd" /\ r.kind = "return"
                         THEN Append(registered, <<Arg(args, 1), Arg(args, 2)>>)
                         ELSE registered
     /\ UNCHANGED <<GUARDED, box>>

\* a call of a guarded function: the apply trap of its handler runs
CallGuarded(c, args) ==
  /\ c.proxy
  /\ \E r \in {apply(c, args, Store)} : Commit(c, args, r)

\* a call of a function the guard returned as it is
CallRaw(c, args) ==
  /\ ~c.proxy
  /\ \E r \in {Invoke(c.f, args, Store)} : Commit(c, args, r)

\* the guard: calls of the guarded functions and of their continuations
GuardedCall ==
  /\ done < MaxCalls
  /\ \E c \in TopLevel \cup held : \E args \in ArgLists(c.f) :
       CallGuarded(c, args)

RawCall ==
  /\ done < MaxCalls
  /\ \E c \in TopLevel \cup held : \E args \in ArgLists(c.f) :
       CallRaw(c, args)

Next == GuardedCall \/ RawCall

Spec == Init /\ [][Next]_vars

\* the registry: a call of appendAdd registers an implementation, a call of
\* append dispatches
Register ==
  /\ done < MaxOps
  /\ \E args \in RegLists : \E r \in {Call(appendAdd, args, Store)} :
       Commit(appendAdd, args, r)

Dispatch ==
  /\ done < MaxOps
  /\ \E args \in DispatchLists : \E r \in {Call(append, args, Store)} :
       Commit(append, args, r)

\* a call of the function a call of append returned
DispatchNext ==
  /\ done < MaxOps
  /\ \E c \in held : \E args \in DispatchNextLists :
       \E r \in {Call(c, args, Store)} : Commit(c, args, r)

NextOverload == Register \/ Dispatch \/ DispatchNext

SpecOverload == Init /\ [][NextOverload]_vars

\* the containers a caller wraps, the indices it writes to and deletes at,
\* and the values, pairs and keys it puts in
A123 == ArrObj(<<Num(1), Num(2), Num(3)>>)
NineMixed ==
  ArrObj(<<Num(1), Num(1), Num(1), Num(1), Num(1), Num(1), Num(1), Num(1),
           Str("x")>>)
ArrInputs ==
  { A123, ArrObj(<<>>), ArrObj(<<Num(1), Str("x")>>), NineMixed,
    ArrObj(<<NineMixed>>), Num(1) }
MapInputs ==
  { MapObj(<<Num(1), Str("a")>>),
    MapObj(<<Num(1), Str("a"), Str("b"), Num(2)>>),
    MapObj(<<>>), Num(1) }
SetInputs == { SetObj(<<Num(1)>>), SetObj(<<Num(1), Str("x")>>), Num(1) }
Indices == { Str("0"), Str("1"), Str("2"), Str("3"), Str("5") }
WriteValues == { Num(4), Str("x"), NaN }
MapPairs ==
  { <<Num(2), Str("b")>>, <<Num(1), Str("z")>>, <<Str("b"), Num(2)>>,
    <<Num(2), Num(3)>> }
SetKeys == { Num(1), Num(2), Str("x") }
Hints == { Str("string"), Str("number"), Str("default") }

\* the caller takes the outcome r of the call of the constructor or of the
\* trap named code: a constructor gives it the container, wrapped or not,
\* a write or a delete that returns has changed the container
CommitBox(code, args, r) ==
  /\ history' = r.st.history
  /\ completed' = r.st.completed
  /\ pairs' = r.st.pairs
  /\ done' = done + 1
  /\ last' = [callee |-> Raw(Fun(code, <<>>)), args |-> args, kind |-> r.kind,
              val |-> r.val, cont |-> {}, invoked |-> r.invoked,
              onCall |-> r.onCall, inArg |-> r.inArg]
  /\ box' = IF r.kind # "return" THEN box
            ELSE IF r.cont # {} THEN CHOOSE b \in r.cont : TRUE
            ELSE [box EXCEPT !.target = r.val]
  /\ UNCHANGED <<GUARDED, held, registered>>

WrapArr ==
  /\ done < MaxBoxOps /\ box = NoBox
  /\ \E xs \in ArrInputs : \E r \in {Arr(xs, Store)} :
       CommitBox("Arr", <<xs>>, r)

WrapMap ==
  /\ done < MaxBoxOps /\ box = NoBox
  /\ \E m \in MapInputs : \E r \in {_Map(m, Store)} :
       CommitBox("_Map", <<m>>, r)

WrapSet ==
  /\ done < MaxBoxOps /\ box = NoBox
  /\ \E x \in SetInputs : \E r \in {_Set(x, Store)} :
       CommitBox("_Set", <<x>>, r)

\* arr[i] = v on the Proxy arr
ArrSet ==
  /\ done < MaxBoxOps /\ box.handler = "handleArr"
  /\ \E i \in Indices : \E v \in WriteValues :
       \E r \in {handleArr_set(box.target, i, v, box.t, Store)} :
         CommitBox("handleArr.set", <<box.target, i, v>>, r)

\* Object.defineProperty(arr, i, d) for the descriptor d of an ordinary
\* element with the value v
ArrDefine ==
  /\ done < MaxBoxOps /\ box.handler = "handleArr"
  /\ \E i \in Indices : \E v \in WriteValues :
       \E r \in {handleArr_defineProperty(box.target, i, DescOf(v), box.t, Store)} :
         CommitBox("handleArr.defineProperty", <<box.target, i, DescOf(v)>>, r)

\* delete arr[i]
ArrDelete ==
  /\ done < MaxBoxOps /\ box.handler = "handleArr"
  /\ \E i \in Indices :
       \E r \in {handleArr_deleteProperty(box.target, i, Store)} :
         CommitBox("handleArr.deleteProperty", <<box.target, i>>, r)

\* map.set(k, v) on the Proxy map
MapSetCall ==
  /\ done < MaxBoxOps /\ box.handler = "handleMap"
  /\ \E kv \in MapPairs :
       \E r \in {handleMap_set(box.target, kv[1], kv[2], box.t, Store)} :
         CommitBox("handleMap.set", kv, r)

\* set.set(k) on the Proxy set
SetSetCall ==
  /\ done < MaxBoxOps /\ box.handler = "handleSet"
  /\ \E k \in SetKeys :
       \E r \in {handleSet_set(box.target, k, box.t, Store)} :
         CommitBox("handleSet.set", <<k>>, r)

\* set.add(k) on the Proxy set
SetAddCall ==
  /\ done < MaxBoxOps /\ box.handler = "handleSet"
  /\ \E k \in SetKeys :
       \E r \in {handleSet_default_add(box.target, k, box.t, Store)} :
         CommitBox("handleSet.add", <<k>>, r)

\* a conversion of the Proxy to a primitive: `${arr}`, +map, set + ""
CoerceArr ==
  /\ done < MaxBoxOps /\ box.handler = "handleArr"
  /\ \E hint \in Hints :
       \E r \in {handleArr_toPrimitive(box.target, hint, Store)} :
         CommitBox("handleArr.toPrimitive", <<hint>>, r)

CoerceMap ==
  /\ done < MaxBoxOps /\ box.handler = "handleMap"
  /\ \E hint \in Hints :
       \E r \in {handleMap_toPrimitive(box.target, hint, Store)} :
         CommitBox("handleMap.toPrimitive", <<hint>>, r)

CoerceSet ==
  /\ done < MaxBoxOps /\ box.handler = "handleSet"
  /\ \E hint \in Hints :
       \E r \in {handleSet_toPrimitive(box.target, hint, Store)} :
         CommitBox("handleSet.toPrimitive", <<hint>>, r)

NextContainers ==
  \/ WrapArr \/ WrapMap \/ WrapSet
  \/ ArrSet \/ ArrDefine \/ ArrDelete
  \/ MapSetCall \/ SetSetCall \/ SetAddCall
  \/ CoerceArr \/ CoerceMap \/ CoerceSet

SpecContainers == Init /\ [][NextContainers]_vars

\* the values a caller asks the descriptor of
Ones(n) == [i \in 1..n |-> Num(1)]
NineOnes == ArrObj(Ones(9))
EightMixed == ArrObj(Ones(7) \o <<Str("x")>>)
Keys(n, v) ==
  [i \in 1..(2 * n) |->
     IF i % 2 = 1 THEN Str("k" \o NatToString((i + 1) \div 2)) ELSE v]
LeftOf(sig) == Tagged("Either", sig, "Left", Fun("id", <<>>))
DescribeInputs ==
  { Undefined, Num(1), NaN, Infinity, Str("x"), Bool(TRUE), Sym, Null,
    BigInt(1), ToTypeTagFn, Fun("id", <<>>),
    A123, ArrObj(<<>>), ArrObj(<<Num(1), Str("x")>>), EightMixed, NineMixed,
    NineOnes, ArrObj(<<Num(1), Hole, Num(3)>>), ArrObj(<<NineMixed>>),
    ArrObj(<<BigInt(1)>>),
    MapObj(<<Num(1), Str("a")>>), MapObj(<<>>),
    SetObj(<<Num(1)>>), SetObj(<<Num(1), Str("x")>>),
    ObjObj(<<>>), ObjObj(Keys(1, Num(1))), ObjObj(Keys(2, Num(1))),
    ObjObj(<<Str("a"), Num(1), Str("b"), Str("x")>>),
    ObjObj(Keys(1, ObjObj(Keys(1, Num(1))))),
    ObjObj(Keys(17, Num(1))), ObjObj(Keys(16, Num(1)) \o <<Str("z"), Str("x")>>),
    RecObj(Keys(2, Num(1))), RecObj(<<Str("length"), Num(17)>>),
    RecObj(Keys(1, Sym)), RecObj(Keys(1, TupObj(<<Num(1), Num(2)>>))),
    ArrObj(<<RecObj(Keys(1, RecObj(Keys(1, Num(1)))))>>),
    TupObj(<<Num(1), Str("x")>>), TupObj(Ones(9)),
    LeftOf(Str("Either<λ>")), LeftOf(Undefined), Boxed("Integer", Num(1)) }

\* the call introspect(x) as its caller sees it: the error of a conversion
\* the prototype forbids is thrown once capitalize(hint) has returned
introspectCall(x, st) ==
  IF introspectError(x) = "TypeCoercion"
    THEN ThrownAfter("TypeCoercion", capitalize(Str("string"), st),
                     TRUE, "", "")
  ELSE IF introspectError(x) # ""
    THEN Thrown(introspectError(x), st, TRUE, "", "")
  ELSE IF x.typeof = "bigint" THEN Returned(Undefined, st)
  ELSE Returned(Str(introspect(x)), st)

\* the caller takes the outcome r of its call of the function named code
CommitPlain(code, args, r) ==
  /\ history' = r.st.history
  /\ completed' = r.st.completed
  /\ pairs' = r.st.pairs
  /\ done' = done + 1
  /\ last' = [callee |-> Raw(Fun(code, <<>>)), args |-> args, kind |-> r.kind,
              val |-> r.val, cont |-> {}, invoked |-> r.invoked,
              onCall |-> r.onCall, inArg |-> r.inArg]
  /\ UNCHANGED <<GUARDED, held, registered, box>>

Describe ==
  /\ done < MaxDescribes
  /\ \E x \in DescribeInputs : \E r \in {introspectCall(x, Store)} :
       CommitPlain("introspect", <<x>>, r)

NextDescribe == Describe

SpecDescribe == Init /\ [][NextDescribe]_vars

\* the values of the types Either and Comparator a caller matches on, and
\* the cases it passes
EitherMakers == { <<"Left", Num(1)>>, <<"Right", Str("x")>> }
Handler == Fun("id", <<>>)
EitherCases ==
  { ObjObj(<<Str("Left"), Handler, Str("Right"), ToTypeTagFn>>),
    ObjObj(<<Str("Right"), ToTypeTagFn, Str("Left"), Handler>>),
    ObjObj(<<Str("Left"), Handler>>),
    ObjObj(<<Str("Right"), Handler>>),
    ObjObj(<<>>),
    ObjObj(<<Str("Left"), Handler, Str("Right"), Handler, Str("Other"), Handler>>),
    ObjObj(<<Str("Other"), Handler, Str("Left"), Handler>>),
    MapObj(<<Str("Left"), Handler, Str("Right"), Handler>>),
    Num(1) }
ComparatorCases ==
  { ObjObj(<<Str("LT"), Num(1), Str("EQ"), Num(2), Str("GT"), Num(3)>>),
    ObjObj(<<Str("EQ"), Num(2)>>),
    ObjObj(<<Str("GT"), Num(3), Str("EQ"), Num(2)>>),
    ObjObj(<<Str("LT"), Num(1), Str("EQ"), Num(2), Str("GT"), Num(3),
             Str("NE"), Num(4)>>) }

\* the second step of a chain, made when the first has returned
AndThen(r1, r2) == IF r1.kind # "return" THEN r1 ELSE r2

\* Left(x).runEither(cases), Right(x).runEither(cases)
MatchEither ==
  /\ done < MaxDataOps
  /\ \E mk \in EitherMakers : \E cases \in EitherCases :
       \E r1 \in {Call(Guard(mk[1], Fun(mk[1], <<>>)), <<mk[2]>>, Store)} :
         \E r \in {AndThen(r1, runOf(r1.val, cases, r1.st))} :
           CommitPlain("runEither", <<r1.val, cases>>, r)

\* EQ.runComparator(cases)
MatchComparator ==
  /\ done < MaxDataOps
  /\ \E cases \in ComparatorCases :
       \E r1 \in {TypeValue("Comparator", ComparatorTags, Str("EQ"),
                            Fun("cases.tag", <<Str("EQ")>>), Store)} :
         \E r \in {AndThen(r1, runOf(r1.val, cases, r1.st))} :
           CommitPlain("runComparator", <<r1.val, cases>>, r)

\* the arguments a caller passes to the constructors
IntInputs == { Num(1), JsDiv(Num(3), Num(2)), NaN, Str("1") }
CharInputs == { Str("a"), Str("ab"), Str(""), Num(1) }
TypeInputs ==
  { <<Str("Either"), Str("Left"), Str("Right")>>,
    <<Str("either"), Str("Left"), Str("Right")>>,
    <<Str("Either"), Str("left")>>,
    <<Num(1)>> }
DataInputs == { Str("Id"), Str("id"), Str(""), Num(1) }

MakeInt ==
  /\ done < MaxDataOps
  /\ \E n \in IntInputs : \E r \in {Int_(n, Store)} :
       CommitPlain("Int", <<n>>, r)

MakeChar ==
  /\ done < MaxDataOps
  /\ \E c \in CharInputs : \E r \in {Char(c, Store)} :
       CommitPlain("Char", <<c>>, r)

MakeType ==
  /\ done < MaxDataOps
  /\ \E args \in TypeInputs : \E r \in {Type(args, Store)} :
       CommitPlain("Type", args, r)

MakeData ==
  /\ done < MaxDataOps
  /\ \E name \in DataInputs : \E r \in {Data(name, Store)} :
       CommitPlain("Data", <<name>>, r)

\* the values of Either a caller compares
EqMakers == EitherMakers \cup { <<"Left", Num(2)>> }

\* eq(Left(x)) (Right(y)) and the like: the two values are made, then
\* compared
EqEither ==
  /\ done < MaxDataOps
  /\ \E mx \in EqMakers : \E my \in EqMakers :
       \E r1 \in {Call(Guard(mx[1], Fun(mx[1], <<>>)), <<mx[2]>>, Store)} :
         \E r2 \in {AndThen(r1, Call(Guard(my[1], Fun(my[1], <<>>)),
                                     <<my[2]>>, r1.st))} :
           \E r \in {AndThen(r2, eq(r1.val, r2.val, r2.st))} :
             CommitPlain("eq", <<r1.val, r2.val>>, r)

NextData ==
  \/ MatchEither \/ MatchComparator
  \/ MakeInt \/ MakeChar \/ MakeType \/ MakeData
  \/ EqEither

SpecData == Init /\ [][NextData]_vars

\* the functions a caller passes to loop:
\*   (x = n, acc = 0) => x === 0 ? acc : recur(x - 1, acc + x)
\*   (k = n) => k === 0 ? v : recur(k - 1)
\* and a value that is no function
LoopResults ==
  { Num(7), Str("x"), Bool(FALSE), Null, NaN, Undefined, Fun("id", <<>>) }
LoopInputs ==
  { Fun("sumTo", <<Num(n)>>) : n \in 0..MaxRecur }
  \cup { Fun("after", <<Num(n), v>>) : n \in 0..MaxRecur, v \in LoopResults }
  \cup { Num(1) }

\* loop(f)
Loop ==
  /\ done < MaxLoops
  /\ \E f \in LoopInputs :
       \E r \in {Call(Guard("loop", Fun("loop", <<>>)), <<f>>, Store)} :
         Commit(Guard("loop", Fun("loop", <<>>)), <<f>>, r)

NextLoop == Loop

SpecLoop == Init /\ [][NextLoop]_vars

\* long runs of guarded calls of co and its continuation
InitHistory == Init /\ GUARDED

LongRun ==
  /\ done < MaxHistCalls
  /\ \E c \in {Guard("co", Fun("co", <<>>))} \cup held : \E args \in HistLists :
       CallGuarded(c, args)

NextHistory == LongRun

SpecHistory == InitHistory /\ [][NextHistory]_vars

(***************************************************************************)
(* The claims of the specification                                         *)
(***************************************************************************)
\* the most recent call was a call of a guarded function
GuardedCallMade == last.kind # "none" /\ last.callee.proxy

\* the descriptors the specification calls invalid-type markers
Markers == {"Undefined", "NaN", "Infinity"}

\* the most recent call breaks the arity rule of its wrapper's mode
BreaksArityRule ==
  IF last.callee.params = "fix"
    THEN Len(last.args) # FnLength(last.callee.f)
    ELSE Len(last.args) < FnLength(last.callee.f)

\* an argument of the most recent call has an invalid-type descriptor
HasMarkerArg ==
  \E i \in 1..Len(last.args) : introspect(last.args[i]) \in Markers

\* C1: a guarded call raises Arity exactly when, in fixed mode, the number of
\* arguments differs from the declared parameter count and, in variadic mode
\* (a name with the prefix "..."), it is smaller; a continuation has the mode
\* of the wrapper that returned it, so the same holds at every step of a chain
C1_ArityRule ==
  GuardedCallMade =>
    /\ last.callee.params \in {"fix", "var"}
    /\ last.callee.params = "var"
         <=> last.callee.f.repr \in {"partial", "partial_1"}
    /\ last.kind = "Arity" <=> BreaksArityRule
    /\ \A k \in last.cont : k.proxy /\ k.params = last.callee.params

\* a continuation, one step into its chain, raised Arity
C1_Witness ==
  /\ GuardedCallMade
  /\ last.callee.nthCall = 1
  /\ last.callee.params = "fix"
  /\ last.kind = "Arity"

\* C2: a guarded call that passes the arity check raises ArgType exactly when
\* one of its arguments, at whatever position, has the descriptor Undefined,
\* NaN or Infinity
C2_ArgTypeRule ==
  GuardedCallMade /\ ~BreaksArityRule =>
    (last.kind = "ArgType" <=> HasMarkerArg)

\* ArgType raised for a second argument behind a valid first one
C2_Witness ==
  /\ GuardedCallMade
  /\ Len(last.args) = 2
  /\ introspect(last.args[1]) \notin Markers
  /\ last.kind = "ArgType"
  /\ last.inArg = "2nd"

\* C3: a guarded call whose function returns a value with an invalid-type
\* descriptor raises ReturnType and returns nothing; what a guarded call
\* returns never has such a descriptor
C3_ReturnTypeRule ==
  GuardedCallMade =>
    /\ last.kind = "return" => introspect(last.val) \notin Markers
    /\ LET raw == Invoke(last.callee.f, last.args, Store)
       IN last.invoked /\ raw.kind = "return"
            /\ introspect(raw.val) \in Markers
          => last.kind = "ReturnType" /\ last.val = Undefined
               /\ last.cont = {}

\* the continuation of div raised ReturnType for the quotient 1 / 0
C3_Witness ==
  /\ GuardedCallMade
  /\ last.callee.f = Fun("div_1", <<Num(1)>>)
  /\ last.args = <<Num(0)>>
  /\ last.kind = "ReturnType"

\* C4: the arity check comes first, then the argument check, then the call,
\* then the return check: a call that breaks both the arity and the argument
\* rule raises Arity, a call that raises Arity or ArgType has not run the
\* function, and a call that raises ReturnType has
C4_CheckOrder ==
  GuardedCallMade =>
    /\ BreaksArityRule /\ HasMarkerArg => last.kind = "Arity"
    /\ last.kind \in {"Arity", "ArgType"} => ~last.invoked
    /\ last.kind \in {"ReturnType", "return"} => last.invoked

\* a call that breaks both rules
C4_Witness ==
  /\ GuardedCallMade
  /\ BreaksArityRule
  /\ HasMarkerArg
  /\ last.kind = "Arity"

\* C5: from the empty history on, the history holds at most 10 entries, and
\* they are the entries of the calls completed most recently, the newest
\* first
C5_HistoryWindow ==
  /\ Len(history) <= 10
  /\ Len(history) = (IF Len(completed) < 10 THEN Len(completed) ELSE 10)
  /\ \A i \in 1..Len(history) :
       history[i] = completed[Len(completed) + 1 - i]

\* 15 calls and more have completed: calls of ordinal, made for the message
\* of an error, and calls of the continuation of co
C5_Witness ==
  /\ Len(completed) >= 15
  /\ Len(history) = 10
  /\ \E i, j \in 1..10 : history[i] # history[j]

\* the step a guarded call takes when its function returns a function
ReturnsContinuation ==
  /\ last'.kind = "return"
  /\ last'.callee.proxy
  /\ last'.val.typeof = "function"

\* the step a guarded call takes when its function returns another value
ReturnsValue ==
  /\ last'.kind = "return"
  /\ last'.callee.proxy
  /\ last'.val.typeof # "function"

\* C6: a guarded call that returns a function returns a guarded continuation
\* and leaves the history as it is; a guarded call that returns another value
\* puts exactly one entry in front of the history (none of the functions of
\* Spec makes a guarded call in its body)
C6_OnlyFinalCallLogs ==
  [][ /\ ReturnsContinuation =>
           /\ history' = history
           /\ last'.cont # {}
           /\ \A k \in last'.cont : k.proxy /\ k.f = last'.val
      /\ ReturnsValue /\ Len(history) < 10 =>
           /\ Len(history') = Len(history) + 1
           /\ Tail(history') = history ]_vars

\* the second call of co(1)(1) has completed: one entry
C6_Witness ==
  /\ last.callee.proxy
  /\ last.callee.f = Fun("co_1", <<Num(1)>>)
  /\ last.callee.nthCall = 1
  /\ last.kind = "return"
  /\ last.val = Num(1)
  /\ Len(history) = 1

\* the descriptors of the arguments as they stand in a record
ArgDescriptors(args) ==
  ArrayJoin([i \in 1..Len(args) |-> Str(introspect(args[i]))], ", ")

\* C7: the entry a completed guarded call writes is name(arg1Type, ..), with
\* the descriptors of the arguments of that call
C7_RecordForm ==
  GuardedCallMade /\ last.kind = "return" /\ last.val.typeof # "function" =>
    /\ history # <<>>
    /\ history[1][Len(history[1])] =
         last.callee.name \o "(" \o ArgDescriptors(last.args) \o ")"

\* the call indices as an error message words them
CallIndex == <<"1st", "2nd", "3rd", "4th", "5th">>

\* a record of the function called name
IsRecordOf(record, name) ==
  /\ Len(record) >= Len(name) + 2
  /\ SubSeq(record, 1, Len(name) + 1) = name \o "("
  /\ SubSeq(record, Len(record), Len(record)) = ")"

\* C8: the wrapper returned for a function has the log of the wrapper called
\* with one record more, that of this call, and a step counter one higher;
\* so a wrapper k calls into its chain has a log of k records, and an Arity
\* or ArgType error of its call names the call index k + 1
C8_LogAndCounter ==
  GuardedCallMade =>
    /\ Len(last.callee.log) = last.callee.nthCall
    /\ \A k \in last.cont :
         /\ k.nthCall = last.callee.nthCall + 1
         /\ Len(k.log) = Len(last.callee.log) + 1
         /\ SubSeq(k.log, 1, Len(last.callee.log)) = last.callee.log
         /\ IsRecordOf(k.log[Len(k.log)], last.callee.name)
    /\ last.kind \in {"Arity", "ArgType"} =>
         last.onCall = CallIndex[last.callee.nthCall + 1]

\* the third call of a chain raised an error that names the 3rd call
C8_Witness ==
  /\ GuardedCallMade
  /\ last.callee.nthCall = 2
  /\ Len(last.callee.log) = 2
  /\ last.kind \in {"Arity", "ArgType"}
  /\ last.onCall = "3rd"

\* C9: with the flag false the guard returns the function itself, a call
\* makes no check and writes no history: it returns what the function
\* returns, as id(NaN) returns NaN
C9_Passthrough ==
  ~GUARDED =>
    /\ \A c \in TopLevel \cup held \cup {appendAdd, append} : ~c.proxy
    /\ Guard("id", Fun("id", <<>>)) = Raw(Fun("id", <<>>))
    /\ history = <<>>
    /\ last.kind \notin {"Arity", "ArgType", "ReturnType"}
    /\ last.callee.f.repr = "id" /\ Len(last.args) >= 1 =>
         last.kind = "return" /\ last.val = last.args[1]

\* id(NaN) has returned NaN
C9_Witness ==
  /\ ~GUARDED
  /\ last.callee.f.repr = "id"
  /\ last.args = <<NaN>>
  /\ last.kind = "return"
  /\ last.val = NaN

\* the keys under which the registry of append holds an entry
RegisteredKeys == {pairs[2 * i - 1] : i \in 1..(Len(pairs) \div 2)}

\* C10: a call of the overloaded function with one argument of a valid
\* descriptor, under whose dispatch key nothing is registered, raises
\* Overload and returns nothing, whatever is registered under other keys
C10_UnregisteredKey ==
  /\ last.kind # "none"
  /\ last.callee.f.repr = "append"
  /\ Len(last.args) = 1
  /\ introspect(last.args[1]) \notin Markers
  /\ Str(dispatcher(last.args[1])) \notin RegisteredKeys
  => last.kind = "Overload" /\ last.val = Undefined /\ last.cont = {}

\* append(1) raised Overload while toTypeTag has an implementation
C10_Witness ==
  /\ last.callee.f.repr = "append"
  /\ last.args = <<Num(1)>>
  /\ RegisteredKeys = {Str("toTypeTag")}
  /\ last.kind = "Overload"

\* the body of append has run on the argument x of the most recent call
DispatchMade ==
  /\ last.kind # "none"
  /\ last.callee.f.repr = "append"
  /\ last.kind \notin {"Arity", "ArgType"}

\* what the registry holds under the dispatch key of that argument
DispatchedImpl == MapGet(pairs, Str(dispatcher(Arg(last.args, 1))))

\* the most recent call came out as impl(x) does for a function impl, the
\* guard's check of the result and its wrapper for a function included, and
\* returned impl itself otherwise
OutcomeOf(impl) ==
  IF impl.typeof = "function"
    THEN LET e == Invoke(impl, <<Arg(last.args, 1)>>, Store)
         IN IF e.kind # "return" THEN last.kind = e.kind
            ELSE IF GUARDED /\ introspect(e.val) \in Markers
              THEN last.kind = "ReturnType"
            ELSE /\ last.kind = "return"
                 /\ last.val = e.val
                 /\ e.val.typeof = "function" =>
                      \E k \in last.cont : k.f = e.val /\ k.proxy = GUARDED
    ELSE last.kind = "return" /\ last.val = impl

ReturnsImplOrItsResult == OutcomeOf(DispatchedImpl)

\* the most recent call is the second call of append([1]) ([2]) with the
\* instance for arrays
SecondCallOfAppend ==
  /\ last.kind # "none"
  /\ last.callee.f = Fun("appendArray_1", <<ArrObj(<<Num(1)>>)>>)
  /\ last.args = <<ArrObj(<<Num(2)>>)>>

LastRegistered(k) ==
  LET made == {i \in 1..Len(registered) : registered[i][1] = k}
  IN IF made = {} THEN Undefined
     ELSE registered[CHOOSE i \in made : \A j \in made : j <= i][2]

\* the registrations made, in every order that keeps the registrations made
\* under one key in their order
Reorderings ==
  LET n == Len(registered)
      keeps(p) == \A a, b \in 1..n :
                    a < b /\ registered[p[a]][1] = registered[p[b]][1]
                      => p[a] < p[b]
  IN {[i \in 1..n |-> registered[p[i]]] : p \in {q \in Permutations(1..n) : keeps(q)}}

RECURSIVE Replay(_, _)
\* the globals after the calls appendAdd(k, v) for the pairs of regs
Replay(regs, st) ==
  IF regs = <<>> THEN st
  ELSE Replay(Tail(regs), Call(appendAdd, Head(regs), st).st)

\* what a call of append on x returns or throws
DispatchResult(x, st) ==
  LET r == Call(append, <<x>>, st)
  IN <<r.kind, r.val, r.cont>>

\* C12: after any sequence of registrations the registry holds for each key
\* the implementation of the last registration made under that key, and a
\* dispatch selects it; the registrations made in another order, those under
\* one key kept in their order, give the same result for every dispatch
C12_LastWinsAndCommutes ==
  /\ \A k \in RegKeys : MapGet(pairs, k) = LastRegistered(k)
  /\ DispatchMade /\ LastRegistered(Str(dispatcher(Arg(last.args, 1)))) # Undefined
       => OutcomeOf(LastRegistered(Str(dispatcher(Arg(last.args, 1)))))
  /\ \A regs \in Reorderings :
       \A x \in DispatchValues :
         DispatchResult(x, Replay(regs, [Store EXCEPT !.pairs = <<>>]))
           = DispatchResult(x, Store)

\* a registration has replaced another under the key Number, and a dispatch
\* on a number has returned what the later one registered
C12_Witness ==
  /\ registered = << <<Str("Number"), Num(1)>>, <<Str("Number"), ToTypeTagFn>> >>
  /\ last.callee.f.repr = "append"
  /\ last.args = <<Num(1)>>
  /\ last.kind = "return"
  /\ last.val = Str("Number")

\* the most recent call is a call of a constructor of a homogeneous container
Constructed ==
  last.kind # "none" /\ last.callee.f.repr \in {"Arr", "_Map", "_Set"}

\* a string has the unknown-placeholder marker in it
HasPlaceholder(t) == \E i \in 1..Len(t) : SubSeq(t, i, i) = "?"

\* the descriptor of the container x denotes heterogeneity: it has the
\* placeholder in it or, for an array, lists the descriptors of mixed elements
DenotesHeterogeneity(x) ==
  \/ HasPlaceholder(introspect(x))
  \/ /\ IsArray(x)
     /\ \E i, j \in 1..Len(x.env) : introspect(x.env[i]) # introspect(x.env[j])

\* the constructor of the most recent call was given a container of its kind
GivenItsContainer ==
  \/ last.callee.f.repr = "Arr" /\ toTypeTag(last.args[1]) = "Array"
  \/ last.callee.f.repr = "_Map" /\ toTypeTag(last.args[1]) = "Map"
  \/ last.callee.f.repr = "_Set" /\ toTypeTag(last.args[1]) = "Set"

\* C13: the construction of a homogeneous container proxy, by Arr, _Map or
\* _Set, from a container whose descriptor denotes heterogeneity fails with
\* an ArgType error and returns no proxy
C13_HeterogeneousRejected ==
  GUARDED /\ Constructed /\ GivenItsContainer
    /\ DenotesHeterogeneity(last.args[1])
  => last.kind = "ArgType" /\ last.val = Undefined /\ box = NoBox

\* the most recent call is a write through the Proxy of an array, by the trap
\* set or by the trap defineProperty: the array before it, the index and the
\* value written
ArrWritten ==
  /\ last.kind # "none"
  /\ last.callee.f.repr \in {"handleArr.set", "handleArr.defineProperty"}

ArrBefore == last.args[1]

WrittenIndex == StrToNat(last.args[2].repr)

WrittenValue ==
  IF last.callee.f.repr = "handleArr.set" THEN last.args[3]
  ELSE last.args[3].env[2]

\* the element descriptor the Proxy of the array was constructed with is that
\* of the value v
HasFixedDescriptor(v) == "[" \o introspect(v) \o "]" = box.t

\* C14: after any sequence of writes through the Proxy of an array every
\* element of the array has the element descriptor fixed at construction; a
\* write of a value of another descriptor is rejected and leaves the array
\* as it is
C14_ElementsKeepDescriptor ==
  box.handler = "handleArr" =>
    /\ \A i \in 1..Len(box.target.env) :
         box.target.env[i] # Hole => HasFixedDescriptor(box.target.env[i])
    /\ ArrWritten /\ ~HasFixedDescriptor(WrittenValue) =>
         last.kind # "return" /\ box.target = ArrBefore

\* an element was appended to [1,2,3], then the definition of the property 1
\* with the value "x" was rejected
C14_Witness ==
  /\ box.handler = "handleArr"
  /\ box.target = ArrObj(<<Num(1), Num(2), Num(3), Num(4)>>)
  /\ last.callee.f.repr = "handleArr.defineProperty"
  /\ last.args[2] = Str("1")
  /\ last.args[3] = DescOf(Str("x"))
  /\ last.kind # "return"

\* C15: a write at the index i of a value of the fixed descriptor is accepted
\* when i is at most the length, and at i = length it appends one element; a
\* write at an index beyond the length is rejected with a TypeError and leaves
\* the array as it is: on [1,2,3], arr[3] = 4 is accepted, arr[5] = 4 is not
C15_WriteUpToLength ==
  box.handler = "handleArr" /\ ArrWritten =>
    /\ WrittenIndex <= Len(ArrBefore.env) /\ HasFixedDescriptor(WrittenValue) =>
         /\ last.kind = "return"
         /\ Len(box.target.env) =
              (IF WrittenIndex = Len(ArrBefore.env)
                 THEN Len(ArrBefore.env) + 1 ELSE Len(ArrBefore.env))
         /\ box.target.env[WrittenIndex + 1] = WrittenValue
         /\ \A k \in 1..Len(ArrBefore.env) :
              k # WrittenIndex + 1 => box.target.env[k] = ArrBefore.env[k]
    /\ WrittenIndex > Len(ArrBefore.env) =>
         last.kind = "TypeError" /\ box.target = ArrBefore
    /\ ArrBefore = A123 /\ WrittenValue = Num(4) =>
         /\ WrittenIndex = 3 =>
              box.target = ArrObj(<<Num(1), Num(2), Num(3), Num(4)>>)
         /\ WrittenIndex = 5 => last.kind = "TypeError" /\ box.target = A123

\* arr[3] = 4 was accepted on [1,2,3], then arr[5] = 4 was rejected
C15_Witness ==
  /\ box.handler = "handleArr"
  /\ box.target = ArrObj(<<Num(1), Num(2), Num(3), Num(4)>>)
  /\ last.callee.f.repr = "handleArr.set"
  /\ last.args = <<box.target, Str("5"), Num(4)>>
  /\ last.kind = "TypeError"

\* the most recent call is a delete through the Proxy of an array
ArrDeleted ==
  last.kind # "none" /\ last.callee.f.repr = "handleArr.deleteProperty"

\* C16: a delete through the Proxy of an array is permitted at the last
\* index, length - 1, and at no other: at any other index it raises a
\* TypeError and leaves the array as it is
C16_DeleteOnlyLast ==
  box.handler = "handleArr" /\ ArrDeleted =>
    /\ WrittenIndex = Len(ArrBefore.env) - 1 =>
         /\ last.kind = "return"
         /\ Len(box.target.env) = Len(ArrBefore.env)
         /\ \A k \in 1..WrittenIndex : box.target.env[k] = ArrBefore.env[k]
    /\ WrittenIndex # Len(ArrBefore.env) - 1 =>
         last.kind = "TypeError" /\ box.target = ArrBefore

\* delete arr[1] was rejected on [1,2,3]
C16_Witness ==
  /\ box.handler = "handleArr"
  /\ box.target = A123
  /\ ArrDeleted
  /\ last.args = <<A123, Str("1")>>
  /\ last.kind = "TypeError"

\* C17: after any sequence of writes and deletes through the Proxy of an
\* array the array has no gap: every index from 0 to length - 1 holds an
\* element
C17_NoSparseGap ==
  box.handler = "handleArr" =>
    \A i \in 1..Len(box.target.env) : box.target.env[i] # Hole

\* the most recent step is a call map.set(k, v) through the Proxy of a map
MapSetStep == last'.callee.f.repr = "handleMap.set" /\ last' # last

\* the pair descriptor the Proxy of the map was constructed with is that of
\* the pair (k, v)
HasFixedPairDescriptor(b, k, v) ==
  "Map<" \o introspect(k) \o ", " \o introspect(v) \o ">" = b.t

\* C18: after any sequence of calls set(k, v) through the Proxy of a map
\* every entry of the map has the pair descriptor fixed at construction; a
\* set of a pair of another descriptor is rejected and leaves the map as it
\* is
C18_PairsKeepDescriptor ==
  [][ /\ box'.handler = "handleMap" =>
           \A i \in 1..(Len(box'.target.env) \div 2) :
             HasFixedPairDescriptor(box', box'.target.env[2 * i - 1],
                                    box'.target.env[2 * i])
      /\ MapSetStep /\ ~HasFixedPairDescriptor(box, last'.args[1], last'.args[2])
           => last'.kind # "return" /\ box' = box
      /\ MapSetStep /\ HasFixedPairDescriptor(box, last'.args[1], last'.args[2])
           => /\ last'.kind = "return"
              /\ MapGet(box'.target.env, last'.args[1]) = last'.args[2] ]_vars

\* set(2, "b") was accepted on the map of 1 to "a", then set("b", 2) was
\* rejected
C18_Witness ==
  /\ box.handler = "handleMap"
  /\ box.target = MapObj(<<Num(1), Str("a"), Num(2), Str("b")>>)
  /\ last.callee.f.repr = "handleMap.set"
  /\ last.args = <<Str("b"), Num(2)>>
  /\ last.kind # "return"

\* C19: the Proxy of a set rejects add(k), and set(k), for a k whose
\* descriptor is not the one fixed at construction, so that after any
\* sequence of insertions the set holds no element of another descriptor
C19_SetKeepsDescriptor ==
  box.handler = "handleSet" =>
    /\ \A i \in 1..Len(box.target.env) :
         "Set<" \o introspect(box.target.env[i]) \o ">" = box.t
    /\ last.callee.f.repr \in {"handleSet.add", "handleSet.set"}
         /\ "Set<" \o introspect(last.args[1]) \o ">" # box.t
       => last.kind # "return"

\* the most recent call is a write, at an index within the array or at its
\* end, of a value that has another descriptor than the elements
DescriptorChangingWrite ==
  /\ box.handler = "handleArr"
  /\ ArrWritten
  /\ WrittenIndex <= Len(ArrBefore.env)
  /\ ~HasFixedDescriptor(WrittenValue)

CoercionAttempted ==
  last.callee.f.repr \in
    {"handleArr.toPrimitive", "handleMap.toPrimitive", "handleSet.toPrimitive"}

\* C21: every attempt to convert an Arr, _Map or _Set proxy to a primitive,
\* whatever the hint, throws a TypeCoercionError and gives no value
C21_CoercionThrows ==
  CoercionAttempted =>
    /\ last.kind = "TypeCoercion"
    /\ last.val = Undefined

\* the conversion of a _Set proxy to a number has thrown
C21_Witness ==
  /\ last.callee.f.repr = "handleSet.toPrimitive"
  /\ last.args = <<Str("number")>>
  /\ box.handler = "handleSet"
  /\ last.kind = "TypeCoercion"

\* introspect has been called with the value x
Described(x) == last.callee.f.repr = "introspect" /\ last.args = <<x>>

\* C22: introspect throws for no value: it returns a descriptor, a string,
\* for a primitive, a function, a plain object, an array, a Map, a Set, a
\* Record, a Tuple and every other tagged object, whatever is nested in it
C22_DescribeIsTotal ==
  last.callee.f.repr = "introspect" =>
    last.kind = "return" /\ last.val.typeof = "string"

\* the value has a descriptor: introspect returns a string for it
HasDescriptor(x) == introspectError(x) = "" /\ x.typeof # "bigint"

\* the elements of the array or the values of the plain object described
\* last, and their descriptors; each of them has one
ElementsOf(x) ==
  IF x.repr = "Array" THEN Present(x.env)
  ELSE [i \in 1..(Len(x.env) \div 2) |-> x.env[2 * i]]

KeysOf(x) == [i \in 1..(Len(x.env) \div 2) |-> x.env[2 * i - 1].repr]

DescribedLast == last.args[1]

ElementTypes ==
  [i \in 1..Len(ElementsOf(DescribedLast)) |->
     introspect(ElementsOf(DescribedLast)[i])]

DescribedA(tag) ==
  /\ last.callee.f.repr = "introspect"
  /\ DescribedLast.typeof = "object" /\ DescribedLast.repr = tag
  /\ Len(ElementsOf(DescribedLast)) > 0
  /\ \A i \in 1..Len(ElementsOf(DescribedLast)) :
       HasDescriptor(ElementsOf(DescribedLast)[i])

SharedType == \A i \in 1..Len(ElementTypes) : ElementTypes[i] = ElementTypes[1]

\* C23: the descriptor of a non-empty array whose elements share the
\* descriptor T is [T] at every length; that of an array with elements of
\* several descriptors is the list [T1, T2, ...] of them, by position, up
\* to the length 8 and [?] beyond
C23_ArrayDescriptor ==
  DescribedA("Array") =>
    /\ last.kind = "return"
    /\ last.val.repr =
         IF SharedType THEN "[" \o ElementTypes[1] \o "]"
         ELSE IF Len(DescribedLast.env) <= 8
           THEN "[" \o JoinTypes(ElementTypes, ", ") \o "]"
         ELSE "[?]"

\* nine elements, eight numbers and a string, have been described as [?]
C23_Witness ==
  /\ Described(NineMixed)
  /\ last.val = Str("[?]")

\* the list key: Type of the properties of the object described last
KeyTypeList ==
  JoinTypes([i \in 1..Len(ElementTypes) |->
               KeysOf(DescribedLast)[i] \o ": " \o ElementTypes[i]], ", ")

\* C24: the descriptor of a plain object whose values share the descriptor
\* T is {String: T}, however many keys it has; that of an object with
\* values of several descriptors is the list {key: Type, ...} up to 16
\* keys and {?} beyond
C24_ObjectDescriptor ==
  DescribedA("Object") =>
    /\ last.kind = "return"
    /\ last.val.repr =
         IF SharedType THEN "{String: " \o ElementTypes[1] \o "}"
         ELSE IF Len(ElementTypes) <= 16
           THEN "{" \o KeyTypeList \o "}"
         ELSE "{?}"

\* a value of a sum type made under the guard has been matched on a plain
\* object: its declared tags and the keys of the object
Matched ==
  /\ last.callee.f.repr \in {"runEither", "runComparator"}
  /\ GUARDED
  /\ toTypeTag(last.args[2]) = "Object"

DeclaredTags ==
  IF last.callee.f.repr = "runEither" THEN <<"Left", "Right">>
  ELSE <<"LT", "EQ", "GT">>

CaseKeys == {KeysOf(last.args[2])[i] : i \in 1..Len(KeysOf(last.args[2]))}

TagsMissing == {i \in 1..Len(DeclaredTags) : DeclaredTags[i] \notin CaseKeys}

\* C25: the guard of a sum type accepts an object of cases exactly when
\* its keys are the declared tags: a missing tag throws an ArgValueError
\* that names the first missing tag, a key that is no tag throws an
\* ArgValueError, and the function that matches is called in neither case
C25_ExactCases ==
  Matched =>
    /\ TagsMissing # {} =>
         /\ last.kind = "ArgValue" /\ ~last.invoked
         /\ last.val =
              Str(DeclaredTags[CHOOSE i \in TagsMissing :
                                 \A j \in TagsMissing : i <= j])
    /\ (CaseKeys \ {DeclaredTags[i] : i \in 1..Len(DeclaredTags)}) # {} =>
         last.kind = "ArgValue" /\ ~last.invoked
    /\ last.invoked <=>
         CaseKeys = {DeclaredTags[i] : i \in 1..Len(DeclaredTags)}

\* a match on the cases GT and EQ has thrown for the missing LT
C25_Witness ==
  /\ Matched
  /\ KeysOf(last.args[2]) = <<"GT", "EQ">>
  /\ last.kind = "ArgValue" /\ last.val = Str("LT") /\ ~last.invoked

\* a constructor has been called, under the guard, with an argument of the
\* type it expects and a value it does not take
InvalidValueGiven ==
  /\ GUARDED
  /\ \/ /\ last.callee.f.repr = "Int"
        /\ last.args[1].typeof = "number" /\ last.args[1].repr = "finite"
        /\ last.args[1].env # <<>>
     \/ /\ last.callee.f.repr = "Char"
        /\ last.args[1].typeof = "string" /\ Len(last.args[1].repr) > 1
     \/ /\ last.callee.f.repr \in {"Type", "Data"}
        /\ \A i \in 1..Len(last.args) :
             last.args[i].typeof = "string" /\ last.args[i].repr # ""
        /\ \E i \in 1..Len(last.args) :
             SubSeq(last.args[i].repr, 1, 1) \in
               {SubSeq("abcdefghijklmnopqrstuvwxyz", j, j) : j \in 1..26}

\* C26: an argument of the right type and an invalid value throws an
\* ArgValueError: a number that is no integer given to Int, a string of
\* more than one character given to Char, a name that is not capitalized
\* given to Type or Data
C26_InvalidValueIsArgValue == InvalidValueGiven => last.kind = "ArgValue"

\* the step is a guarded call that fails the check of its arity or of the
\* types of its arguments
FailsItsChecks ==
  /\ last' # last
  /\ last'.callee.proxy
  /\ last'.kind \in {"Arity", "ArgType"}

\* C27: a guarded call that fails the check of its arity or of the types
\* of its arguments leaves the global history as it was: the throw adds no
\* entry, removes none and moves none
C27_FailedCheckKeepsHistory ==
  [][FailsItsChecks => history' = history]_vars

\* the step is a call of the continuation the caller holds
CallsHeld ==
  /\ done' = done + 1
  /\ last'.callee \in held
  /\ last'.callee.nthCall > 0

PayloadOf(tx) ==
  IF tx.env[3].repr = "$sum" THEN tx.env[3].env[2].env[2]
  ELSE tx.env[3].env[2]

\* C29: eq of two values of Either throws nothing and returns a Boolean:
\* true exactly when the two have the same tag, both Left or both Right,
\* and payloads that are eq, false otherwise
C29_EqEither ==
  last.callee.f.repr = "eq" =>
    /\ last.kind = "return"
    /\ last.val =
         Bool(/\ TagOf(last.args[1]) = TagOf(last.args[2])
              /\ PayloadOf(last.args[1]) = PayloadOf(last.args[2]))

\* loop has been called with a function that recurs for a number of steps
\* and then returns a value that is no marker
Looped ==
  /\ last.callee.f.repr = "loop"
  /\ last.args[1].typeof = "function"

\* the value the function returns in the end: the sum of 1..n for the one
\* that adds up, which is right only if each call gets the arguments of
\* the marker before it, and the value v for the other
FinalValue ==
  IF last.args[1].repr = "sumTo"
    THEN Num((last.args[1].env[1].num * (last.args[1].env[1].num + 1)) \div 2)
    ELSE last.args[1].env[2]

\* C30: loop(f) calls f without arguments and then, as long as the result
\* is a marker of recur, with the arguments of the marker; when f returns
\* a value that is no marker, loop ends and returns that value
C30_LoopReturnsFinalValue ==
  Looped =>
    /\ last.kind = "return" /\ last.val = FinalValue
    /\ \A k \in last.cont : ~k.proxy

\* C30, amended: as above where loop is not guarded; the guarded loop
\* throws a ReturnTypeError for a final value of an invalid type, and
\* returns a final value that is a function wrapped in a guard
C30_LoopReturnsFinalValueChecked ==
  Looped =>
    IF GUARDED /\ introspect(FinalValue) \in {"Undefined", "NaN", "Infinity"}
      THEN last.kind = "ReturnType"
      ELSE /\ last.kind = "return" /\ last.val = FinalValue
           /\ (\E k \in last.cont : k.proxy)
                <=> GUARDED /\ FinalValue.typeof = "function"

\* the guarded loop has added up 3, 2 and 1 over three markers
C30_Witness ==
  /\ Looped /\ GUARDED
  /\ last.args[1] = Fun("sumTo", <<Num(3)>>)
  /\ last.kind = "return" /\ last.val = Num(6)

====
